---- MODULE Spec2Model ----
(***************************************************************************)
(* A model of icli's command line application (src/icli/cli.py):           *)
(*   - the command scheduler of IBKRCmdlineApp.dorepl (comment removal,    *)
(*     splitting, concurrency groups, unit execution),                     *)
(*   - IBKRCmdlineApp.qualify and the contract cache conIdCache,           *)
(*   - IBKRCmdlineApp.addQuoteFromContract and quoteState,                 *)
(*   - IBKRCmdlineApp.placeOrderForContract with currentQuote and          *)
(*     quantityForAmount (quote wait, pricing, sizing, submission),        *)
(*   - IBKRCmdlineApp.bagForSpread and midpointBracketBuyOrder.            *)
(* Text is modelled as a sequence of one-character strings so that the     *)
(* regular expressions and the str methods are computed, not assumed.      *)
(***************************************************************************)
EXTENDS Integers, Sequences, FiniteSets, TLC

VARIABLES
    pc,          \* dorepl: "prompt" (awaiting prompt_async), "running" (awaiting a
                 \* runnable) or "finished" (at the end of the body of "while True")
    text1,       \* the line last returned by session.prompt_async
    runnables,   \* the units built from text1, in production order
    ui,          \* index in runnables of the unit being awaited (0: none)
    task,        \* task[u][m]: state of the runop coroutine of member m of unit u
    outer,       \* state of the asyncio.gather future of the collective being awaited
    logs,        \* logger.exception records written while running the current line
    orphans,     \* runop tasks of earlier lines that are still running
    conIdCache,  \* self.conIdCache: key -> [contract, expire_time]
    now,         \* the wall clock of the cache, in seconds
    qcall,       \* the call of qualify in progress, or the last one
    resolvedUntil, \* per input descriptor: expiry of the cache entry its last
                 \* successful resolution wrote (0: never resolved)
    quoteState,  \* self.quoteState: quote key -> the Ticker of reqMktData
    mktData,     \* the market data requests the gateway has received, in order
    addCount,    \* per contract: calls of addQuoteFromContract so far
    keysReturned, \* per contract: the keys addQuoteFromContract has returned for it
    po,          \* the call of placeOrderForContract in progress, or the last one
    sz,          \* the last call of quantityForAmount on its own: arguments and result
    bag,         \* the call of bagForSpread in progress, or the last one
    reqIdSeq,    \* the next id of self.ib.client.getReqId()
    bracket,     \* the last call of midpointBracketBuyOrder: arguments and result
    handlers,    \* per gateway event kind: the handlers attached to self.ib's event
    exiting,     \* self.exiting
    repl,        \* dorepl itself: where it is, and how the REPL loop was left
    proc,        \* the process: "running", or "terminated" by sys.exit
    rc,          \* the calls of reconnect(): the one dorepl awaits, then one task
                 \* per disconnectedEvent
    connected,   \* self.connected
    link,        \* the gateway connection of self.ib: "up" or "down"
    gatewayUp,   \* whether the gateway answers: connects and requests succeed
    epoch,       \* the disconnects so far; a cache entry is stamped with the epoch
                 \* in which it was written
    summary,     \* self.summary: the stamps of its entries
    position,    \* self.position: the stamps of its entries
    orderCache,  \* self.order: the stamps of its entries
    pnlSingle,   \* self.pnlSingle: the stamps of its entries
    quoteEra,    \* per key of quoteState: the stamp of its ticker in this model
    isSandbox,   \* self.isSandbox: "None", "True" or "False"
    firstAccount, \* the account of the first summary row that was not for "All"
    globalGroup, \* the quotes saved under the name "global"
    md,          \* the midpoint derivation of a dollar amount for one quote
    cp,          \* the call of contractsForPosition, or the last one
    creq,        \* the call of contractForOrderRequest in progress, or the last one
    aq           \* the calls of addQuotes of the members of one concurrent unit

schedVars == <<pc, text1, runnables, ui, task, outer, logs, orphans>>

qualVars == <<conIdCache, now, qcall, resolvedUntil>>

quoteVars == <<quoteState, mktData, addCount, keysReturned>>

orderVars == <<po, sz>>

asmVars == <<bag, reqIdSeq, bracket>>

connVars == <<handlers, exiting, repl, proc, rc, connected, link, gatewayUp, epoch,
              summary, position, orderCache, pnlSingle, quoteEra, isSandbox,
              firstAccount, globalGroup>>

fnVars == <<md, cp, creq, aq>>

vars == <<schedVars, qualVars, quoteVars, orderVars, asmVars, connVars, fnVars>>

\* what the scheduler, qualify and the quote registry each leave alone
notSched == <<qualVars, quoteVars, orderVars, asmVars, fnVars, connVars>>

notQual == <<schedVars, quoteVars, orderVars, asmVars, fnVars, connVars>>

notQuote == <<schedVars, qualVars, orderVars, asmVars, fnVars, connVars>>

-----------------------------------------------------------------------------
(* Bounds of the model.                                                    *)

\* longest generated input line, in characters
MaxLen == 4

\* most runop tasks of earlier lines still running when a new line is read
MaxOrphans == 1

\* most contracts passed to one call of qualify
MaxBatch == 2

\* the clock advances in steps of TickDays days, up to MaxClockDays days
TickDays == 15

MaxClockDays == 45

\* most calls of addQuoteFromContract with one contract
MaxAddCalls == 2

-----------------------------------------------------------------------------
(* Text helpers: Python's str.strip/rstrip, re.sub, re.split, str.split.   *)

\* the characters str.strip() removes, among those of the model's alphabet
IsSpace(c) == c \in {" ", "\n"}

RECURSIVE LStrip(_)
LStrip(s) ==
    IF s = <<>> THEN s
    ELSE IF IsSpace(Head(s)) THEN LStrip(Tail(s)) ELSE s

RECURSIVE RStrip(_)
RStrip(s) ==
    IF s = <<>> THEN s
    ELSE IF IsSpace(s[Len(s)]) THEN RStrip(SubSeq(s, 1, Len(s) - 1)) ELSE s

Strip(s) == RStrip(LStrip(s))

\* re.sub(r"#.*", "", t): '.' matches every character but the newline, so a
\* comment runs from '#' to the end of its own line and the newline stays.
RECURSIVE SubComment(_, _)
SubComment(t, inComment) ==
    IF t = <<>> THEN <<>>
    ELSE IF Head(t) = "\n" THEN <<"\n">> \o SubComment(Tail(t), FALSE)
    ELSE IF inComment \/ Head(t) = "#" THEN SubComment(Tail(t), TRUE)
    ELSE <<Head(t)>> \o SubComment(Tail(t), FALSE)

\* a comment removal that runs to the end of the whole input (re.DOTALL)
RECURSIVE SubCommentDotAll(_)
SubCommentDotAll(t) ==
    IF t = <<>> THEN <<>>
    ELSE IF Head(t) = "#" THEN <<>>
    ELSE <<Head(t)>> \o SubCommentDotAll(Tail(t))

commentRemovedDotAll(t) == Strip(SubCommentDotAll(t))

\* commentRemoved = re.sub(r"#.*", "", text1).strip()
commentRemoved(t) == Strip(SubComment(t, FALSE))

\* re.split on a character class: the pieces between separators, empty ones kept
RECURSIVE SplitAcc(_, _, _)
SplitAcc(s, seps, cur) ==
    IF s = <<>> THEN <<cur>>
    ELSE IF Head(s) \in seps THEN <<cur>> \o SplitAcc(Tail(s), seps, <<>>)
    ELSE SplitAcc(Tail(s), seps, Append(cur, Head(s)))

\* ccmds = re.split(r"[\n;]", commentRemoved)
ccmdsOf(t) == SplitAcc(commentRemoved(t), {"\n", ";"}, <<>>)

\* position of the first space of s, 0 when it has none
FirstSpace(s) ==
    IF \E i \in 1..Len(s) : s[i] = " "
    THEN CHOOSE i \in 1..Len(s) : s[i] = " " /\ \A j \in 1..(i - 1) : s[j] # " "
    ELSE 0

\* cmd, *rest = ccmd.split(" ", 1)
SplitCmd(ccmd) ==
    LET i == FirstSpace(ccmd) IN
    IF i = 0 THEN [cmd |-> ccmd, rest |-> <<>>]
    ELSE [cmd |-> SubSeq(ccmd, 1, i - 1),
          rest |-> <<SubSeq(ccmd, i + 1, Len(ccmd))>>]

-----------------------------------------------------------------------------
(* The command grouping loop of dorepl.                                    *)

\* runCollective(collective.copy()): one concurrent unit of (cmd, rest, ccmd) entries
runCollectiveUnit(collective) == [kind |-> "collective", cmds |-> collective]

\* runSingleCommand(cmd, rest): one sequential unit (ccmd kept for reference)
runSingleUnit(entry) == [kind |-> "single", cmds |-> <<entry>>]

\* a grouping loop that forgets the group still open at the end of the input
FlushCollectiveDropped(collective, rs) == rs

\* "if collective: runnables.append(runCollective(collective.copy()))"
FlushCollective(collective, rs) ==
    IF collective # <<>> THEN Append(rs, runCollectiveUnit(collective)) ELSE rs

\* the body of "for ccmd in ccmds", then the flush after the loop
RECURSIVE GroupLoop(_, _, _)
GroupLoop(ccmds, collective, rs) ==
    IF ccmds = <<>> THEN FlushCollective(collective, rs)
    ELSE
        LET stripped == Strip(Head(ccmds)) IN
        IF stripped = <<>> THEN GroupLoop(Tail(ccmds), collective, rs)
        ELSE
            LET isBackgroundCmd == stripped[Len(stripped)] = "&"
                ccmd == IF isBackgroundCmd
                        THEN RStrip(SubSeq(stripped, 1, Len(stripped) - 1))
                        ELSE stripped
                sp == SplitCmd(ccmd)
                entry == [cmd |-> sp.cmd, rest |-> sp.rest, full |-> ccmd]
            IN
            IF isBackgroundCmd
            THEN GroupLoop(Tail(ccmds), Append(collective, entry), rs)
            ELSE GroupLoop(Tail(ccmds), <<>>,
                           Append(FlushCollective(collective, rs), runSingleUnit(entry)))

\* the runnables dorepl builds for one input line
BuildRunnables(t) == GroupLoop(ccmdsOf(t), <<>>, <<>>)

-----------------------------------------------------------------------------
(* Input lines: every text of at most MaxLen characters over the alphabet, *)
(* and the lines the documentation of dorepl and the design use.           *)

Alphabet == {"a", " ", "&", ";", "#", "\n"}

BoundedTexts == UNION {[1..n -> Alphabet] : n \in 0..MaxLen}

\* "a&; b&; c; d&; e&"
ExampleGroups ==
    <<"a", "&", ";", " ", "b", "&", ";", " ", "c", ";", " ",
      "d", "&", ";", " ", "e", "&">>

\* "a; b; # c; d"  (the shape of "CMD1; CMD2; # CMD3; CMD4")
ExampleComment == <<"a", ";", " ", "b", ";", " ", "#", " ", "c", ";", " ", "d">>

\* two lines, the first with a comment: "a # b;c" newline "d x&; e"
ExampleLines ==
    <<"a", " ", "#", " ", "b", ";", "c", "\n", "d", " ", "x", "&", ";", " ", "e">>

ExampleTexts == {ExampleGroups, ExampleComment, ExampleLines}

InputTexts == BoundedTexts \cup ExampleTexts

-----------------------------------------------------------------------------
(* Running the units: runCollective, runSingleCommand and the loop         *)
(* "for run in runnables: await run" of dorepl.                            *)
(* A runop coroutine is "created" (never awaited yet), "running" (started, *)
(* possibly suspended at a gateway round trip), "done" or "raised".        *)

Members(u) == 1..Len(runnables[u].cmds)

Finished(st) == st \in {"done", "raised"}

IdleOuter == [st |-> "idle", who |-> 0]

\* the state of every task when unit u is awaited: a single command is run by the
\* awaiting coroutine itself, the members of a collective are wrapped in tasks by
\* asyncio.gather and all take their first step before any of them is reaped
StartUnit(rs, tk, u) ==
    [tk EXCEPT ![u] = [m \in 1..Len(rs[u].cmds) |-> "running"]]

OuterFor(rs, u) ==
    IF rs[u].kind = "collective" THEN [st |-> "pending", who |-> 0] ELSE IdleOuter

\* a loop that gives up the remaining runnables once one of them failed
NextUnitAbortOnFailure(u, failed) == IF failed THEN Len(runnables) + 1 ELSE u + 1

\* "for run in runnables: try: await run / except: logger.exception(...)":
\* the unit after u is awaited whether or not u failed
NextUnit(u, failed) == u + 1

\* the awaited unit u has returned to dorepl: await the next one, or prompt again
Advance(u, failed, tk) ==
    LET n == NextUnit(u, failed) IN
    IF n > Len(runnables)
    THEN /\ pc' = "finished"
         /\ ui' = 0
         /\ task' = tk
         /\ outer' = IdleOuter
    ELSE /\ pc' = "running"
         /\ ui' = n
         /\ task' = StartUnit(runnables, tk, n)
         /\ outer' = OuterFor(runnables, n)

RunningTasks == {<<u, m>> \in (1..Len(task)) \X (1..MaxLen + 5) :
                    m \in 1..Len(task[u]) /\ task[u][m] = "running"}

\* text1 = await session.prompt_async(...) returns t, then the grouping loop, then
\* the first runnable is awaited
Prompt(t) ==
    /\ pc = "prompt"
    /\ UNCHANGED <<orphans, notSched>>
    /\ text1' = t
    /\ logs' = {}
    /\ LET rs == BuildRunnables(t)
           created == [u \in 1..Len(rs) |-> [m \in 1..Len(rs[u].cmds) |-> "created"]]
       IN
       /\ runnables' = rs
       /\ IF rs = <<>>
          THEN /\ pc' = "finished"
               /\ ui' = 0
               /\ task' = created
               /\ outer' = IdleOuter
          ELSE /\ pc' = "running"
               /\ ui' = 1
               /\ task' = StartUnit(rs, created, 1)
               /\ outer' = OuterFor(rs, 1)

\* the runop of member m of unit u returns
MemberFinish(u, m) ==
    /\ u \in 1..Len(task) /\ m \in 1..Len(task[u])
    /\ task[u][m] = "running"
    /\ UNCHANGED <<text1, runnables, orphans, logs, notSched>>
    /\ LET tk == [task EXCEPT ![u][m] = "done"] IN
       IF pc = "running" /\ u = ui /\ runnables[u].kind = "single"
       THEN \* runSingleCommand returns
            Advance(u, FALSE, tk)
       ELSE /\ task' = tk
            /\ UNCHANGED <<pc, ui>>
            /\ outer' = IF /\ pc = "running" /\ u = ui /\ outer.st = "pending"
                           /\ \A k \in 1..Len(tk[u]) : tk[u][k] = "done"
                        THEN [st |-> "result", who |-> 0]
                        ELSE outer

\* the runop of member m of unit u raises
MemberRaise(u, m) ==
    /\ u \in 1..Len(task) /\ m \in 1..Len(task[u])
    /\ task[u][m] = "running"
    /\ UNCHANGED <<text1, runnables, orphans, notSched>>
    /\ LET tk == [task EXCEPT ![u][m] = "raised"] IN
       IF pc = "running" /\ u = ui /\ runnables[u].kind = "single"
       THEN \* runSingleCommand: "except: logger.exception('sorry, what now?')"
            /\ logs' = logs \cup {[unit |-> u, member |-> m, by |-> "runSingleCommand"]}
            /\ Advance(u, TRUE, tk)
       ELSE \* gather without return_exceptions: the first exception is set on the
            \* outer future at once; a later one is only marked as retrieved
            /\ task' = tk
            /\ UNCHANGED <<pc, ui, logs>>
            /\ outer' = IF pc = "running" /\ u = ui /\ outer.st = "pending"
                        THEN [st |-> "exception", who |-> m]
                        ELSE outer

\* runCollective resumes from "await asyncio.gather(...)": logs the exception if
\* there is one, returns, and dorepl goes on
ResumeCollective ==
    /\ pc = "running"
    /\ outer.st \in {"result", "exception"}
    /\ UNCHANGED <<text1, runnables, orphans, notSched>>
    /\ logs' = IF outer.st = "exception"
               THEN logs \cup {[unit |-> ui, member |-> outer.who, by |-> "runCollective"]}
               ELSE logs
    /\ Advance(ui, outer.st = "exception", task)

\* "while True": the loop body is over and dorepl awaits prompt_async again; the
\* locals of the body are dead, the tasks of the line that still run stay scheduled
LoopBack ==
    /\ pc = "finished"
    /\ orphans + Cardinality(RunningTasks) <= MaxOrphans
    /\ orphans' = orphans + Cardinality(RunningTasks)
    /\ pc' = "prompt"
    /\ text1' = <<>>
    /\ runnables' = <<>>
    /\ task' = <<>>
    /\ logs' = {}
    /\ UNCHANGED <<ui, outer, notSched>>

\* a task left over from an earlier line ends (its result or exception is dropped)
OrphanEnds ==
    /\ orphans > 0
    /\ orphans' = orphans - 1
    /\ UNCHANGED <<pc, text1, runnables, ui, task, outer, logs, notSched>>

SchedInit ==
    /\ pc = "prompt"
    /\ text1 = <<>>
    /\ runnables = <<>>
    /\ ui = 0
    /\ task = <<>>
    /\ outer = IdleOuter
    /\ logs = {}
    /\ orphans = 0

SchedNext ==
    \/ \E t \in InputTexts : Prompt(t)
    \/ \E u \in 1..Len(task) : \E m \in 1..Len(task[u]) : MemberFinish(u, m)
    \/ \E u \in 1..Len(task) : \E m \in 1..Len(task[u]) : MemberRaise(u, m)
    \/ ResumeCollective
    \/ LoopBack
    \/ OrphanEnds

-----------------------------------------------------------------------------
(* IBKRCmdlineApp.qualify and the contract cache.                          *)

\* Python's None
None == "None"

\* "expire=86400 * 30"
SecondsPerDay == 86400

TTLDays == 30

Expire == SecondsPerDay * TTLDays

\* what the gateway knows: two instruments, an equity and an option whose local
\* symbol has a space (OCC-like)
Catalogue ==
    { [conId |-> 1, symbol |-> <<"A">>, localSymbol |-> <<"A">>, exchange |-> "NASDAQ"],
      [conId |-> 2, symbol |-> <<"S">>, localSymbol |-> <<"S", " ", "C">>, exchange |-> "CBOE"] }

\* contracts a caller passes to qualify: names without an id (two of them typos)
\* and a bare id; two positions of an input list are two objects, also when their
\* fields are equal
RawContracts ==
    { [conId |-> 0, symbol |-> <<"A">>, localSymbol |-> <<>>, exchange |-> "SMART"],
      [conId |-> 0, symbol |-> <<"S">>, localSymbol |-> <<"S", " ", "C">>, exchange |-> ""],
      [conId |-> 0, symbol |-> <<"X">>, localSymbol |-> <<>>, exchange |-> "SMART"],
      [conId |-> 0, symbol |-> <<"Y">>, localSymbol |-> <<>>, exchange |-> "SMART"],
      [conId |-> 1, symbol |-> <<>>, localSymbol |-> <<>>, exchange |-> ""] }

InputLists == UNION {[1..n -> RawContracts] : n \in 1..MaxBatch}

\* the cache keys of a contract: its conId, and (localSymbol, symbol)
IdKey(id) == [kind |-> "conId", conId |-> id, localSymbol |-> <<>>, symbol |-> <<>>]

SymKey(c) == [kind |-> "name", conId |-> 0, localSymbol |-> c.localSymbol, symbol |-> c.symbol]

\* diskcache.Cache.get finds a key that is present and not expired ...
CacheHas(cache, t, k) == k \in DOMAIN cache /\ cache[k].expire_time > t

\* ... and returns its value
CacheGet(cache, t, k) == cache[k].contract

\* diskcache.Cache.set(key, value, expire=...): the value is stored serialized
CacheSet(cache, t, k, c, expire) ==
    [x \in DOMAIN cache \cup {k} |->
        IF x = k THEN [contract |-> c, expire_time |-> t + expire] ELSE cache[x]]

\* the catalogue entries a contract description matches (reqContractDetails)
Matches(c) ==
    {e \in Catalogue :
        IF c.conId # 0 THEN e.conId = c.conId
        ELSE e.symbol = c.symbol /\ (c.localSymbol = <<>> \/ c.localSymbol = e.localSymbol)}

Qualifies(c) == Cardinality(Matches(c)) = 1

\* qualifyContractsAsync fills the caller's contract in place; a 'SMART' exchange
\* is kept as it is
Filled(c) ==
    LET e == CHOOSE x \in Matches(c) : TRUE IN
    [conId |-> e.conId, symbol |-> e.symbol, localSymbol |-> e.localSymbol,
     exchange |-> IF c.exchange = "SMART" THEN "SMART" ELSE e.exchange]

\* a store that checks nothing
ShouldCacheAlways(c) == TRUE

\* "if contract.conId:"
ShouldCache(c) == c.conId # 0

\* a store that keeps the exchange
StoredValueWithExchange(c) == c

\* "contract.exchange = None" before the two conIdCache.set
StoredValue(c) == [c EXCEPT !.exchange = None]

\* "contract.exchange = originalExchange" after them
Restored(stored, originalExchange) == [stored EXCEPT !.exchange = originalExchange]

\* one iteration of "for contract in got": the cache afterwards
StoreOne(cache, t, c) ==
    IF ShouldCache(c)
    THEN CacheSet(CacheSet(cache, t, IdKey(c.conId), StoredValue(c), Expire),
                  t, SymKey(c), StoredValue(c), Expire)
    ELSE cache

\* ... and the contract object afterwards
ObjectAfterStore(c) ==
    IF ShouldCache(c) THEN Restored(StoredValue(c), c.exchange) ELSE c

\* the loop "for contract in got" over the positions gotPos of the input list
RECURSIVE StoreAll(_, _, _, _)
StoreAll(cache, t, cs, gotPos) ==
    IF gotPos = <<>> THEN cache
    ELSE StoreAll(StoreOne(cache, t, cs[Head(gotPos)]), t, cs, Tail(gotPos))

\* the positions of a set, in increasing order
RECURSIVE Ascending(_)
Ascending(ps) ==
    IF ps = {} THEN <<>>
    ELSE LET lo == CHOOSE x \in ps : \A y \in ps : x <= y IN <<lo>> \o Ascending(ps \ {lo})

Range(f) == {f[i] : i \in DOMAIN f}

\* cached_contracts after the first loop: conId -> the cached contract
CachedDict(cache, t, cs, hits) ==
    [id \in {cs[i].conId : i \in hits} |->
        [from |-> "cache", pos |-> 0, contract |-> CacheGet(cache, t, IdKey(id))]]

\* cached_contracts after "cached_contracts[contract.conId] = contract" for every
\* contract of got, in order: a later contract with the same conId replaces an earlier
GotDict(dict, cs, gotPos) ==
    LET ids == {cs[p].conId : p \in Range(gotPos)} IN
    [id \in DOMAIN dict \cup ids |->
        IF id \in ids
        THEN LET p == CHOOSE x \in Range(gotPos) :
                        /\ cs[x].conId = id
                        /\ \A y \in Range(gotPos) : cs[y].conId = id => y <= x
             IN [from |-> "input", pos |-> p, contract |-> cs[p]]
        ELSE dict[id]]

\* "result = [cached_contracts[contract.conId] for contract in contracts]": the
\* call returns the list, or raises KeyError
Finish(call, cs, dict) ==
    IF \A i \in 1..Len(cs) : cs[i].conId \in DOMAIN dict
    THEN [call EXCEPT !.phase = "returned", !.contracts = cs, !.cached = dict,
                      !.result = [i \in 1..Len(cs) |-> dict[cs[i].conId]]]
    ELSE [call EXCEPT !.phase = "raised", !.contracts = cs, !.cached = dict,
                      !.result = <<>>]

IdleCall ==
    [phase |-> "idle", raw |-> <<>>, contracts |-> <<>>, sent |-> {}, sentAt |-> 0,
     got |-> <<>>, returned |-> <<>>, cached |-> <<>>, result |-> <<>>]

\* qualify(*contracts) up to "await self.ib.qualifyContractsAsync(...)", or to its
\* return when nothing is uncached: the call
BeginCall(inputs) ==
    LET hits == {i \in 1..Len(inputs) :
                     CacheHas(conIdCache, now, IdKey(inputs[i].conId))}
        dict == CachedDict(conIdCache, now, inputs, hits)
        call == [IdleCall EXCEPT !.raw = inputs, !.contracts = inputs,
                                 !.sent = (1..Len(inputs)) \ hits, !.sentAt = now,
                                 !.cached = dict]
    IN IF call.sent = {}
       THEN Finish(call, inputs, dict)
       ELSE [call EXCEPT !.phase = "awaiting"]

QualifyBegin(inputs) ==
    /\ qcall.phase = "idle"
    /\ qcall' = BeginCall(inputs)
    /\ UNCHANGED <<conIdCache, now, resolvedUntil, notQual>>

\* the gateway answers: the contracts it knows come back filled in; one it does not
\* know is left out of the answer (mode "dropped") or comes back with its fields
\* not populated (mode "unpopulated", the case the comment in qualify describes).
\* Then the loop over got, and the result.
QualifyReturn(mode) ==
    /\ qcall.phase = "awaiting"
    /\ LET answered == [i \in 1..Len(qcall.contracts) |->
                            IF i \in qcall.sent /\ Qualifies(qcall.contracts[i])
                            THEN Filled(qcall.contracts[i])
                            ELSE qcall.contracts[i]]
           gotPos == Ascending({i \in qcall.sent :
                                    Qualifies(qcall.contracts[i]) \/ mode = "unpopulated"})
           cs == [i \in 1..Len(answered) |->
                      IF i \in Range(gotPos) THEN ObjectAfterStore(answered[i])
                      ELSE answered[i]]
           dict == GotDict(qcall.cached, cs, gotPos)
       IN
       /\ conIdCache' = StoreAll(conIdCache, now, answered, gotPos)
       /\ qcall' = Finish([qcall EXCEPT !.got = gotPos,
                                        !.returned = [k \in 1..Len(gotPos) |-> answered[gotPos[k]]]],
                          cs, dict)
       /\ resolvedUntil' =
              [r \in RawContracts |->
                  IF \E i \in qcall.sent : qcall.raw[i] = r /\ Qualifies(r)
                  THEN now + Expire ELSE resolvedUntil[r]]
    /\ UNCHANGED <<now, notQual>>

\* "return result", or the KeyError leaves qualify: the call is over
QualifyEnd ==
    /\ qcall.phase \in {"returned", "raised"}
    /\ qcall' = IdleCall
    /\ UNCHANGED <<conIdCache, now, resolvedUntil, notQual>>

\* time passes
Tick ==
    /\ now + TickDays * SecondsPerDay <= MaxClockDays * SecondsPerDay
    /\ now' = now + TickDays * SecondsPerDay
    /\ UNCHANGED <<conIdCache, qcall, resolvedUntil, notQual>>

QualInit ==
    /\ conIdCache = <<>>
    /\ now = 0
    /\ qcall = IdleCall
    /\ resolvedUntil = [r \in RawContracts |-> 0]

QualNext ==
    \/ \E inputs \in InputLists : QualifyBegin(inputs)
    \/ \E mode \in {"dropped", "unpopulated"} : QualifyReturn(mode)
    \/ QualifyEnd
    \/ Tick

-----------------------------------------------------------------------------
(* IBKRCmdlineApp.addQuoteFromContract and quoteState.                     *)

\* str.replace(" ", "")
RECURSIVE RemoveSpaces(_)
RemoveSpaces(s) ==
    IF s = <<>> THEN <<>>
    ELSE IF Head(s) = " " THEN RemoveSpaces(Tail(s))
    ELSE <<Head(s)>> \o RemoveSpaces(Tail(s))

\* lookupKey(contract) of icli.helpers: the local symbol without its spaces, or
\* the symbol when there is no local symbol (contracts with legs are not modelled)
lookupKey(contract) ==
    IF contract.localSymbol # <<>> THEN RemoveSpaces(contract.localSymbol)
    ELSE contract.symbol

\* contracts passed to addQuoteFromContract: the two instruments as qualify returns
\* them (the first with either exchange), a third instrument without a local symbol
\* whose symbol reads like the option's key, and a contract that never qualified
QuoteContracts ==
    { [conId |-> 1, symbol |-> <<"A">>, localSymbol |-> <<"A">>, exchange |-> "SMART"],
      [conId |-> 1, symbol |-> <<"A">>, localSymbol |-> <<"A">>, exchange |-> "NASDAQ"],
      [conId |-> 2, symbol |-> <<"S">>, localSymbol |-> <<"S", " ", "C">>, exchange |-> "CBOE"],
      [conId |-> 3, symbol |-> <<"S", "C">>, localSymbol |-> <<>>, exchange |-> "SMART"],
      [conId |-> 0, symbol |-> <<"X">>, localSymbol |-> <<>>, exchange |-> "SMART"] }

\* a subscribe that asks the gateway every time
AlreadySubscribedNever(symkey) == FALSE

\* "if symkey not in self.quoteState" (negated)
AlreadySubscribed(symkey) == symkey \in DOMAIN quoteState

\* addQuoteFromContract(contract): the assert, the key, the guarded reqMktData
addQuoteFromContract(contract) ==
    /\ addCount[contract] < MaxAddCalls
    /\ addCount' = [addCount EXCEPT ![contract] = @ + 1]
    /\ IF contract.conId = 0
       THEN \* "assert contract.conId" fails
            UNCHANGED <<quoteState, mktData, keysReturned>>
       ELSE LET symkey == lookupKey(contract) IN
            /\ IF AlreadySubscribed(symkey)
               THEN UNCHANGED <<quoteState, mktData>>
               ELSE /\ quoteState' = [k \in DOMAIN quoteState \cup {symkey} |->
                                         IF k = symkey THEN [contract |-> contract]
                                         ELSE quoteState[k]]
                    /\ mktData' = Append(mktData, contract)
            /\ keysReturned' = [keysReturned EXCEPT ![contract] = @ \cup {symkey}]
    /\ UNCHANGED notQuote

QuoteInit ==
    /\ quoteState = <<>>
    /\ mktData = <<>>
    /\ addCount = [c \in QuoteContracts |-> 0]
    /\ keysReturned = [c \in QuoteContracts |-> {}]

QuoteNext == \E c \in QuoteContracts : addQuoteFromContract(c)

-----------------------------------------------------------------------------
(* IBKRCmdlineApp.currentQuote and quantityForAmount.                      *)
(* A float is a record: nan, or the number v.  Prices and dollar amounts   *)
(* are counted in one money unit (a cent where a price is rounded to two    *)
(* decimals), so that round(x, 2) and the quotient of quantityForAmount    *)
(* are computed on integers.                                               *)

NaN == [nan |-> TRUE, v |-> 0]

Num(x) == [nan |-> FALSE, v |-> x]

\* one dollar, in cents
Dollar == 100

\* the price -1 the gateway sends for "no bid"
NoBidPrice == 0 - Dollar

\* np.isnan
isnan(x) == x.nan

\* "x <= 0" on floats: False for nan
LeZero(x) == ~x.nan /\ x.v <= 0

\* a positive number: not nan, and above zero
PositiveNumber(x) == ~x.nan /\ x.v > 0

\* "assert q and q.contract": the key has a ticker in quoteState
QuoteKnown(qs, sym) == sym \in DOMAIN qs

\* currentQuote(sym), for the ticker prices q = [bid, ask] of quoteState[sym]:
\* the pair (bid, ask), or None (the empty tuple here: both are false for "not")
currentQuote(q) ==
    IF (isnan(q.bid) /\ isnan(q.ask)) \/ (LeZero(q.bid) /\ LeZero(q.ask))
    THEN <<>>
    ELSE <<q.bid, q.ask>>

\* round(n / d) to the nearest integer, halves to the even one (d > 0)
RoundHalfEven(n, d) ==
    LET q == n \div d
        r == n % d
    IN IF 2 * r < d THEN q
       ELSE IF 2 * r > d THEN q + 1
       ELSE IF q % 2 = 0 THEN q ELSE q + 1

\* isinstance(contract, Option) / isinstance(contract, Crypto)
isOption(contract) == contract.secType = "OPT"

isCrypto(contract) == contract.secType = "CRYPTO"

\* float(contract.multiplier or 1): the multiplier '' is written 0 here
MultiplierOf(contract) == IF contract.multiplier = 0 THEN 1 ELSE contract.multiplier

\* round(x, 8): eight decimals are kept
RoundDigits == 8

\* "k * d <= 10 * r" for 0 <= r < d and a digit k, without forming 10 * r
DigitFits(k, r, d) ==
    LET x == r - k * (d \div 10) IN
    x >= 9 \/ (x >= 0 /\ 10 * x >= k * (d % 10))

\* the next decimal of r / d: the largest digit that fits
Digit(r, d) ==
    CHOOSE k \in 0..9 : DigitFits(k, r, d) /\ (k = 9 \/ ~DigitFits(k + 1, r, d))

\* n decimals of r / d after the point, as an integer, and what is left of r
RECURSIVE FracDigits(_, _, _, _)
FracDigits(r, d, n, acc) ==
    IF n = 0 THEN [frac |-> acc, rem |-> r]
    ELSE LET k == Digit(r, d) IN
         FracDigits(10 * (r - k * (d \div 10)) - k * (d % 10), d, n - 1, acc * 10 + k)

RECURSIVE Pow10(_)
Pow10(n) == IF n = 0 THEN 1 ELSE 10 * Pow10(n - 1)

\* a quantity: whole units and a fraction of RoundDigits decimals
Quantity(units, frac) == [units |-> units, frac |-> frac]

\* round(a / d, 8) for a >= 0 and d > 0
Round8(a, d) ==
    LET f == FracDigits(a % d, d, RoundDigits, 0)
        up == \/ f.rem > d - f.rem
              \/ f.rem = d - f.rem /\ f.frac % 2 = 1
        frac == IF up THEN f.frac + 1 ELSE f.frac
    IN IF frac = Pow10(RoundDigits) THEN Quantity((a \div d) + 1, 0)
       ELSE Quantity(a \div d, frac)

\* "qty > 0" / "not qty" on a quantity
PositiveQty(q) == q.units > 0 \/ q.frac > 0

ZeroQty(q) == q.units = 0 /\ q.frac = 0

\* math.floor(qty)
Floor(q) == Quantity(q.units, 0)

\* "if not isinstance(contract, Crypto): qty = math.floor(qty)" (negated)
KeepFraction(contract) == isCrypto(contract)

\* a multiplier applied to every class
SizingMultiplierAlways(contract) == MultiplierOf(contract)

\* "if isinstance(contract, Option): mul = float(contract.multiplier or 1)
\*  else: mul = 1"
SizingMultiplier(contract) == IF isOption(contract) THEN MultiplierOf(contract) ELSE 1

\* what quantityForAmount gives: a quantity, or the exception it raises
Sized(q) == [exc |-> "", qty |-> q]

SizingRaises(exc) == [exc |-> exc, qty |-> Quantity(0, 0)]

\* quantityForAmount(contract, amount, limitPrice), amount >= 0
quantityForAmount(contract, amount, limitPrice) ==
    LET mul == SizingMultiplier(contract)
        d == limitPrice * mul
    IN IF ~(mul > 0) THEN SizingRaises("AssertionError")
       ELSE IF d = 0 THEN SizingRaises("ZeroDivisionError")
       ELSE IF d < 0 \/ ~PositiveQty(Round8(amount, d))
            THEN \* "assert qty > 0"
                 SizingRaises("AssertionError")
       ELSE IF KeepFraction(contract) THEN Sized(Round8(amount, d))
       ELSE Sized(Floor(Round8(amount, d)))

\* quantityForAmount on its own: contracts of each class, with and without a
\* multiplier, and amounts and prices in one money unit
SizerContracts ==
    { [secType |-> t, multiplier |-> m] :
        t \in {"STK", "OPT", "FUT", "CRYPTO"}, m \in {0, 5, 100} }

\* the largest price times multiplier that is formed
MaxNotional == 2000000000

SizerAmounts == {0, 1, 3, 299, 1000, 100000, 399999999}

SizerPrices == {0, 1, 3, 250, 5000, 33333, 400000000}

SizerInputs ==
    { [contract |-> c, amount |-> a, limitPrice |-> p] :
        c \in SizerContracts,
        a \in SizerAmounts,
        p \in SizerPrices }

NoSizing ==
    [done |-> FALSE, contract |-> [secType |-> "STK", multiplier |-> 0],
     amount |-> 0, limitPrice |-> 0, result |-> SizingRaises("")]

\* one call of quantityForAmount
Size(in) ==
    /\ ~sz.done
    /\ in.limitPrice <= MaxNotional \div MultiplierOf(in.contract)
    /\ sz' = [done |-> TRUE, contract |-> in.contract, amount |-> in.amount,
              limitPrice |-> in.limitPrice,
              result |-> quantityForAmount(in.contract, in.amount, in.limitPrice)]
    /\ UNCHANGED <<connVars, schedVars, qualVars, quoteVars, po, asmVars, fnVars>>

\* the call is over
SizeEnd ==
    /\ sz.done
    /\ sz' = NoSizing
    /\ UNCHANGED <<connVars, schedVars, qualVars, quoteVars, po, asmVars, fnVars>>

SizerInit == sz = NoSizing

SizerNext ==
    \/ \E in \in SizerInputs : Size(in)
    \/ SizeEnd

-----------------------------------------------------------------------------
(* IBKRCmdlineApp.placeOrderForContract.                                   *)

\* contracts passed to placeOrderForContract: a stock and an option (its
\* exchange not set, as when it comes from the cache), both qualified; a stock
\* that never qualified; a spread with the combination marker and a spread
\* without it
OrderContracts ==
    { [conId |-> 1, symbol |-> <<"A">>, localSymbol |-> <<"A">>, exchange |-> "SMART",
       secType |-> "STK", multiplier |-> 0, tradingClass |-> "NMS"],
      [conId |-> 2, symbol |-> <<"S">>, localSymbol |-> <<"S", " ", "C">>, exchange |-> "",
       secType |-> "OPT", multiplier |-> 100, tradingClass |-> "S"],
      [conId |-> 0, symbol |-> <<"X">>, localSymbol |-> <<>>, exchange |-> "SMART",
       secType |-> "STK", multiplier |-> 0, tradingClass |-> ""],
      [conId |-> 0, symbol |-> <<"A">>, localSymbol |-> <<>>, exchange |-> "SMART",
       secType |-> "BAG", multiplier |-> 0, tradingClass |-> "COMB"],
      [conId |-> 0, symbol |-> <<"A">>, localSymbol |-> <<>>, exchange |-> "SMART",
       secType |-> "BAG", multiplier |-> 0, tradingClass |-> ""] }

\* the qty argument: a number of units, or (negative) a number of cents to spend
QtyArgs == {0 - 100000, 0 - 1, 0, 2}

\* the price argument, in cents: none, or an explicit price
PriceArgs == {0, 12}

\* the prices a ticker can show on each side: nan (nothing yet), -1 (no price),
\* 0, and a price in cents; one ask is so high that a cent buys less than
\* 0.000000005 contracts
BidValues == {NaN, Num(NoBidPrice), Num(0), Num(100)}

AskValues == {NaN, Num(NoBidPrice), Num(0), Num(251), Num(4000010)}

TickerPrices == { [bid |-> b, ask |-> a] : b \in BidValues, a \in AskValues }

\* the ticker of a subscription just made: no price has arrived
FreshTicker == [bid |-> NaN, ask |-> NaN]

\* the price increment of a contract, in cents
TickOf(contract) == IF isOption(contract) THEN 5 ELSE 1

\* comply(contract, price) of icli.helpers: the price as a multiple of the
\* contract's price increment, in cents; the price is given in 1/scale cents
complyScaled(contract, price, scale) ==
    RoundHalfEven(price, scale * TickOf(contract)) * TickOf(contract)

comply(contract, price) == complyScaled(contract, price, 1)

\* a price argument passed on as it is
ExplicitPriceUnrounded(contract, price) == price

\* "if price > 0: price = comply(contract, price)"
ExplicitPrice(contract, price) == IF price > 0 THEN comply(contract, price) ELSE price

\* a gate that lets every contract through
UnqualifiedNever(contract) == FALSE

\* "if not contract.conId: if contract.tradingClass != 'COMB'"
Unqualified(contract) == contract.conId = 0 /\ contract.tradingClass # "COMB"

\* "loopFor = 10"
QuoteRetries == 10

\* a wait that never gives up
LoopExhaustedNever(loopFor) == FALSE

\* "if (loopFor := loopFor - 1) == 0", for the decremented value
LoopExhausted(loopFor) == loopFor = 0

\* "if bid == -1"
NoBid(bid) == ~bid.nan /\ bid.v = NoBidPrice

\* "round(..., 2)" of line 747: to the nearest cent, whatever the side
RoundToCents(n, d, isLong) == RoundHalfEven(n, d)

\* the midpoint of lines 726-747, from the pair currentQuote returned, whose
\* prices are in 1/scale cents: a float, in cents
DerivedMidScaled(contract, isLong, bid0, ask, scale) ==
    LET bid == IF ~bid0.nan /\ bid0.v = NoBidPrice * scale THEN ask ELSE bid0 IN
    IF isOption(contract)
    THEN LET mid == IF bid.nan \/ ask.nan THEN NaN
                    ELSE Num(RoundHalfEven(bid.v + ask.v, 2 * scale))
         IN IF ~mid.nan THEN mid
            ELSE IF ask.nan THEN NaN
            ELSE Num(RoundHalfEven(ask.v, 2 * scale))
    ELSE IF bid.nan \/ ask.nan THEN NaN
    ELSE \* (bid + ask) / 2 * 1.005, or * 0.995: 1005 / 2000 = 201 / 400
         Num(RoundToCents((bid.v + ask.v) * (IF isLong THEN 201 ELSE 199), 400 * scale,
                          isLong))

\* the same for prices in cents
DerivedMid(contract, isLong, bid0, ask) == DerivedMidScaled(contract, isLong, bid0, ask, 1)

\* "if not qty:" after quantityForAmount
ZeroQuantity(q) == ZeroQty(q)

\* orders.IOrder(side, qty, price, ...).order(orderType) of icli.orders: the
\* order's action, quantity and limit price
IOrder(side, qty, price) == [action |-> side, totalQuantity |-> qty, lmtPrice |-> price]

\* "if not contract.exchange: contract.exchange = 'SMART'"
ExchangeDefaulted(contract) ==
    IF contract.exchange = "" THEN [contract EXCEPT !.exchange = "SMART"] ELSE contract

\* the orderType argument: a limit order, peg-to-midpoint, and a name for which
\* orders.IOrder(...).order(orderType) of icli.orders raises
OrderTypes == {"LMT", "PEG MID", "UNKNOWN"}

\* the try around orders.IOrder(...).order(orderType) fails
GenerationFails(orderType) == orderType = "UNKNOWN"

\* isinstance(contract, Stock)
isStock(contract) == contract.secType = "STK"

\* a peg-to-midpoint order that every class of contract may carry
PegUnsupportedNever(orderType, contract) == FALSE

\* "if order.orderType == 'PEG MID'" for a contract that is neither an Option
\* nor a Stock: "return None"
PegUnsupported(orderType, contract) ==
    orderType = "PEG MID" /\ ~isOption(contract) /\ ~isStock(contract)

\* the exchange a peg-to-midpoint order is routed to
PegRouted(orderType, contract) ==
    IF orderType # "PEG MID" THEN contract
    ELSE IF isOption(contract) THEN [contract EXCEPT !.exchange = "IBUSOPT"]
    ELSE IF isStock(contract) THEN [contract EXCEPT !.exchange = "IBKRATS"]
    ELSE contract

NoCall ==
    [phase |-> "idle", contract |-> CHOOSE c \in OrderContracts : c.conId = 1,
     isLong |-> TRUE, qtyArg |-> 0, priceArg |-> 0, preview |-> FALSE,
     orderType |-> "LMT",
     price |-> 0, qty |-> Quantity(0, 0), loopFor |-> 0, polls |-> 0, sleeps |-> 0,
     seen |-> FreshTicker, quote |-> <<>>, dynamic |-> FALSE, cancelled |-> FALSE,
     outcome |-> "", exc |-> "", sent |-> <<>>,
     waitQuoteState |-> <<>>, waitCache |-> <<>>, missing |-> FALSE]

\* the call returns value
Return(call, value) == [call EXCEPT !.phase = "done", !.outcome = value]

\* the call raises exc
Raise(call, exc) == [call EXCEPT !.phase = "done", !.outcome = "raised", !.exc = exc]

\* currentQuote: "q = self.quoteState.get(sym)", "assert q and q.contract" fails
QuoteMissing(call) == [Raise(call, "AssertionError") EXCEPT !.missing = TRUE]

\* lines 784-974: "assert qty > 0", the order, then the preview request or
\* placeOrder
Submit(call) ==
    IF ~PositiveQty(call.qty) THEN Raise(call, "AssertionError")
    ELSE IF GenerationFails(call.orderType) THEN Return(call, "None")
    ELSE IF PegUnsupported(call.orderType, call.contract) THEN Return(call, "None")
    ELSE LET order == IOrder(IF call.isLong THEN "BUY" ELSE "SELL", call.qty, call.price)
             contract == PegRouted(call.orderType, call.contract)
         IN
         IF call.preview
         THEN [call EXCEPT !.phase = "previewing",
                           !.sent = Append(@, [op |-> "whatIfOrder",
                                               contract |-> contract,
                                               order |-> order])]
         ELSE [Return(call, "placed")
                  EXCEPT !.sent = Append(@, [op |-> "placeOrder",
                                             contract |-> ExchangeDefaulted(contract),
                                             order |-> order])]

\* lines 706-781: the price and the quantity of a dollar amount, from the pair
\* currentQuote returned. The name quoteSymbol of line 729 is defined nowhere in
\* cli.py: nameDefined says whether "from icli.helpers import *" provides it.
Sizing(call, bid, ask, nameDefined) ==
    IF NoBid(bid) /\ ~nameDefined THEN Raise(call, "NameError")
    ELSE LET mid == DerivedMid(call.contract, call.isLong, bid, ask) IN
         IF mid.nan
         THEN \* a nan price: "assert qty > 0" of quantityForAmount fails at the latest
              Raise(call, "AssertionError")
         ELSE LET price == comply(call.contract, mid.v)
                  sized == quantityForAmount(call.contract, 0 - call.qtyArg, price)
                  priced == [call EXCEPT !.price = price, !.qty = sized.qty,
                                         !.dynamic = TRUE]
              IN IF sized.exc # "" THEN Raise(priced, sized.exc)
                 ELSE IF ZeroQuantity(sized.qty) THEN Return(priced, "None")
                 ELSE Submit(priced)

\* a cancellation that is swallowed: the wait goes on
OnCancelledIgnored(call) == [call EXCEPT !.cancelled = TRUE]

\* the except clause around "await asyncio.sleep(0.033)": a warning and "return"
OnCancelled(call) == [Return(call, "None") EXCEPT !.cancelled = TRUE]

\* one test of the while condition: currentQuote(quoteKey) for the ticker
\* prices q, then the sleep, or the rest of the call
Poll(call, q, nameDefined) ==
    LET quote == currentQuote(q)
        polled == [call EXCEPT !.polls = @ + 1, !.seen = q, !.quote = quote]
    IN IF quote = <<>>
       THEN [polled EXCEPT !.phase = "sleeping", !.sleeps = @ + 1]
       ELSE Sizing(polled, quote[1], quote[2], nameDefined)

\* lines 630-783 once "add" has returned: the gate, then the first poll of a
\* dollar amount, or the order of a number of units
AfterAdd(call, q, nameDefined) ==
    IF Unqualified(call.contract) THEN Return(call, "None")
    ELSE IF call.qtyArg < 0
    THEN IF ~QuoteKnown(quoteState', lookupKey(call.contract))
         THEN QuoteMissing(call)
         ELSE Poll([call EXCEPT !.loopFor = QuoteRetries,
                                !.waitQuoteState = quoteState',
                                !.waitCache = conIdCache'],
                   q, nameDefined)
    ELSE Submit([call EXCEPT !.qty = Quantity(call.qtyArg, 0)])

\* placeOrderForContract(sym, isLong, contract, qty, price, orderType, preview)
\* up to "await self.dispatch.runop('add', ...)"
PlaceBegin(contract, isLong, qty, price, orderType, preview) ==
    /\ po.phase = "idle"
    /\ contract.secType = "BAG" => qty >= 0
    /\ orderType # "LMT" => qty >= 0
    /\ po' = [NoCall EXCEPT !.phase = "adding", !.contract = contract,
                            !.isLong = isLong, !.qtyArg = qty, !.priceArg = price,
                            !.preview = preview, !.orderType = orderType,
                            !.price = ExplicitPrice(contract, price)]
    /\ UNCHANGED <<connVars, schedVars, qualVars, quoteVars, sz, asmVars, fnVars>>

\* whether line 729 finds its name matters only when it is run
NameChoices(q) == IF NoBid(q.bid) THEN BOOLEAN ELSE {TRUE}

\* the prices the ticker of a key shows when it is read: nothing yet when the
\* subscription was made by this very step
ReadableTickers(fresh) == IF fresh THEN {FreshTicker} ELSE TickerPrices

\* "add" returns: a key that was not subscribed and names an instrument of the
\* gateway has been qualified (and cached) and subscribed; then the call runs on
\* to its first sleep, to the preview request or to its end
AddReturns ==
    /\ po.phase = "adding"
    /\ LET c == po.contract
           symkey == lookupKey(c)
           fresh == c.conId # 0 /\ ~AlreadySubscribed(symkey)
       IN /\ IF fresh
             THEN /\ conIdCache' = StoreOne(conIdCache, now, c)
                  /\ quoteState' = [k \in DOMAIN quoteState \cup {symkey} |->
                                       IF k = symkey THEN [contract |-> c]
                                       ELSE quoteState[k]]
                  /\ mktData' = Append(mktData, c)
             ELSE UNCHANGED <<conIdCache, quoteState, mktData>>
          /\ \E q \in ReadableTickers(fresh) : \E nameDefined \in NameChoices(q) :
                po' = AfterAdd(po, q, nameDefined)
    /\ UNCHANGED <<connVars, schedVars, now, qcall, resolvedUntil, addCount, keysReturned,
                   sz, asmVars, fnVars>>

\* most polls of one call that are followed (more than QuoteRetries)
MaxPolls == 12

\* the sleep is over: the budget, then the next poll, of the key as quoteState
\* holds it now
SleepReturns ==
    /\ po.phase = "sleeping"
    /\ po.polls < MaxPolls
    /\ LET woken == [po EXCEPT !.loopFor = @ - 1] IN
       IF LoopExhausted(woken.loopFor)
       THEN po' = Return(woken, "None")
       ELSE IF ~QuoteKnown(quoteState, lookupKey(po.contract))
       THEN po' = QuoteMissing(woken)
       ELSE \E q \in TickerPrices : \E nameDefined \in NameChoices(q) :
               po' = Poll(woken, q, nameDefined)
    /\ UNCHANGED <<connVars, schedVars, qualVars, quoteVars, sz, asmVars, fnVars>>

\* the sleep is cancelled
SleepCancelled ==
    /\ po.phase = "sleeping"
    /\ po' = OnCancelled(po)
    /\ UNCHANGED <<connVars, schedVars, qualVars, quoteVars, sz, asmVars, fnVars>>

\* "await self.ib.whatIfOrderAsync(contract, order)" returns: "return False"
WhatIfReturns ==
    /\ po.phase = "previewing"
    /\ po' = Return(po, "False")
    /\ UNCHANGED <<connVars, schedVars, qualVars, quoteVars, sz, asmVars, fnVars>>

\* the call is over
PlaceEnd ==
    /\ po.phase = "done"
    /\ po' = NoCall
    /\ UNCHANGED <<connVars, schedVars, qualVars, quoteVars, sz, asmVars, fnVars>>

OrderInit == po = NoCall

OrderNext ==
    \/ \E c \in OrderContracts, isLong \in BOOLEAN, qty \in QtyArgs,
          price \in PriceArgs, orderType \in OrderTypes, preview \in BOOLEAN :
            PlaceBegin(c, isLong, qty, price, orderType, preview)
    \/ AddReturns
    \/ SleepReturns
    \/ SleepCancelled
    \/ WhatIfReturns
    \/ PlaceEnd

\* a buy of a dollar amount entered at the prompt
PlaceAtPrompt(contract, qty) ==
    /\ repl.pc = "prompt"
    /\ qty < 0
    /\ PlaceBegin(contract, TRUE, qty, 0, "LMT", FALSE)

-----------------------------------------------------------------------------
(* The midpoint derivation of placeOrderForContract as a function of the   *)
(* quote, for quotes finer than a cent.                                    *)

\* quotes below one dollar are in 1/100 of a cent
SubCent == 100

\* the prices of a quote, in 1/100 cent: around half a dollar, around one
\* dollar and around 25 dollars
MidPrices == {4990, 5009, 5011, 10000, 10100, 250000, 250100}

MidContracts == {c \in OrderContracts : c.conId # 0}

NoMid ==
    [done |-> FALSE, contract |-> CHOOSE c \in MidContracts : ~isOption(c),
     isLong |-> TRUE, bid |-> 0, ask |-> 0, price |-> 0]

\* lines 726-749 for the quote (bid, ask): "price = comply(contract, mid)"
DeriveMid(contract, isLong, bid, ask) ==
    /\ ~md.done
    /\ bid <= ask
    /\ md' = [done |-> TRUE, contract |-> contract, isLong |-> isLong, bid |-> bid,
              ask |-> ask,
              price |-> comply(contract,
                               DerivedMidScaled(contract, isLong, Num(bid), Num(ask),
                                                SubCent).v)]
    /\ UNCHANGED <<schedVars, qualVars, quoteVars, orderVars, asmVars, connVars, cp, creq, aq>>

\* the derivation is over
MidEnd ==
    /\ md.done
    /\ md' = NoMid
    /\ UNCHANGED <<schedVars, qualVars, quoteVars, orderVars, asmVars, connVars, cp, creq, aq>>

MidInit == md = NoMid

MidNext ==
    \/ \E c \in MidContracts, isLong \in BOOLEAN, bid \in MidPrices, ask \in MidPrices :
          DeriveMid(c, isLong, bid, ask)
    \/ MidEnd

-----------------------------------------------------------------------------
(* IBKRCmdlineApp.contractsForPosition.                                    *)

\* a set as a sequence, in some fixed order
RECURSIVE SeqOf(_)
SeqOf(set) ==
    IF set = {} THEN <<>>
    ELSE LET c == CHOOSE x \in set : TRUE IN <<c>> \o SeqOf(set \ {c})

\* a float as its magnitude and its sign bit (0.0 and -0.0 differ)
Signed(x) == [mag |-> IF x < 0 THEN 0 - x ELSE x, neg |-> x < 0]

\* a size that keeps the sign of the request
CopySignOfRequest(qty, pos) == Signed(qty)

\* math.copysign(qty, position)
CopySign(qty, pos) == [mag |-> Signed(qty).mag, neg |-> pos < 0]

\* fnmatch of a name against a pattern with "?" and "*"
RECURSIVE Glob(_, _)
Glob(name, pat) ==
    IF pat = <<>> THEN name = <<>>
    ELSE IF Head(pat) = "*"
    THEN Glob(name, Tail(pat)) \/ (name # <<>> /\ Glob(Tail(name), pat))
    ELSE /\ name # <<>>
         /\ Head(pat) = "?" \/ Head(pat) = Head(name)
         /\ Glob(Tail(name), Tail(pat))

\* sym.replace("/", "")
RECURSIVE RemoveSlashes(_)
RemoveSlashes(sym) ==
    IF sym = <<>> THEN <<>>
    ELSE IF Head(sym) = "/" THEN RemoveSlashes(Tail(sym))
    ELSE <<Head(sym)>> \o RemoveSlashes(Tail(sym))

\* "fnmatch.filter([pi.contract.localSymbol.replace(' ', '')], sym.replace('/', ''))"
PositionMatches(pi, sym) == Glob(RemoveSpaces(pi.localSymbol), RemoveSlashes(sym))

\* the three branches that set foundqty; qty is <<>> for None, else <<number>>
FoundQty(qty, pos) ==
    IF qty = <<>> THEN Signed(pos)
    ELSE IF Signed(qty[1]).mag >= Signed(pos).mag THEN Signed(pos)
    ELSE CopySign(qty[1], pos)

\* "for pi in portitems: ... results.append((contract, foundqty, pi.marketPrice))"
RECURSIVE PositionResults(_, _, _)
PositionResults(portitems, sym, qty) ==
    IF portitems = <<>> THEN <<>>
    ELSE LET pi == Head(portitems)
             rest == PositionResults(Tail(portitems), sym, qty)
         IN IF PositionMatches(pi, sym)
            THEN <<[contract |-> pi.localSymbol, size |-> FoundQty(qty, pi.position),
                    marketPrice |-> pi.marketPrice, position |-> pi.position]>> \o rest
            ELSE rest

\* the items self.ib.portfolio() can hold: a long stock, a short future, a short
\* option and a position that was closed
PortfolioItems ==
    { [localSymbol |-> <<"A">>, position |-> 10, marketPrice |-> 5],
      [localSymbol |-> <<"A", "B">>, position |-> 0 - 3, marketPrice |-> 7],
      [localSymbol |-> <<"S", " ", "C">>, position |-> 0 - 10, marketPrice |-> 2],
      [localSymbol |-> <<"Z">>, position |-> 0, marketPrice |-> 1] }

Portfolios == { SeqOf(items) : items \in SUBSET PortfolioItems }

\* the sym argument: names, a name with the slash of a future, and patterns
PositionSyms ==
    { <<"A">>, <<"/", "A", "B">>, <<"S", "C">>, <<"A", "*">>, <<"?", "?">>, <<"*">> }

\* the qty argument: None, or a number
PositionQtys == { <<>>, <<0 - 15>>, <<0 - 2>>, <<0>>, <<2>>, <<3>>, <<10>>, <<15>> }

NoPositionCall == [done |-> FALSE, portfolio |-> <<>>, sym |-> <<>>, qty |-> <<>>,
                   results |-> <<>>]

\* one call of contractsForPosition(sym, qty)
PositionsFor(portfolio, sym, qty) ==
    /\ ~cp.done
    /\ cp' = [done |-> TRUE, portfolio |-> portfolio, sym |-> sym, qty |-> qty,
              results |-> PositionResults(portfolio, sym, qty)]
    /\ UNCHANGED <<schedVars, qualVars, quoteVars, orderVars, asmVars, connVars, md, creq, aq>>

\* the call is over
PositionsEnd ==
    /\ cp.done
    /\ cp' = NoPositionCall
    /\ UNCHANGED <<schedVars, qualVars, quoteVars, orderVars, asmVars, connVars, md, creq, aq>>

PositionInit == cp = NoPositionCall

PositionNext ==
    \/ \E portfolio \in Portfolios, sym \in PositionSyms, qty \in PositionQtys :
          PositionsFor(portfolio, sym, qty)
    \/ PositionsEnd

FnInit == MidInit /\ PositionInit

-----------------------------------------------------------------------------
(* IBKRCmdlineApp.bagForSpread.                                            *)

\* most legs of one order request
MaxLegs == 2

\* largest ratio of a leg
MaxRatio == 2

\* the legs of an order request: the name of an instrument (the stock, the
\* option, or a typo), its ratio and its side
Legs ==
    { [symbol |-> n.symbol, localSymbol |-> n.localSymbol, multiplier |-> r, isBuy |-> b] :
        n \in { [symbol |-> <<"A">>, localSymbol |-> <<>>],
                [symbol |-> <<"S">>, localSymbol |-> <<"S", " ", "C">>],
                [symbol |-> <<"X">>, localSymbol |-> <<>>] },
        r \in 1..MaxRatio,
        b \in BOOLEAN }

\* multi-leg order requests (oreq.orders)
SpreadRequests == UNION { [1..n -> Legs] : n \in 2..MaxLegs }

\* the exchange argument of bagForSpread
BagExchanges == {"SMART", ""}

\* contractForName(s.symbol, exchange=exchange, currency=currency) of
\* icli.helpers: a contract described by name, with no id
contractForName(leg, exchange) ==
    [conId |-> 0, symbol |-> leg.symbol, localSymbol |-> leg.localSymbol,
     exchange |-> exchange]

\* legs collected back to front
PrependLeg(legs, leg) == <<leg>> \o legs

\* "legs.append(leg)"
AppendLeg(legs, leg) == Append(legs, leg)

\* "ComboLeg(conId=c.conId, ratio=o.multiplier,
\*           action='BUY' if o.isBuy() else 'SELL', exchange=c.exchange)"
ComboLegFor(c, o) ==
    [conId |-> c.conId, ratio |-> o.multiplier,
     action |-> IF o.isBuy THEN "BUY" ELSE "SELL", exchange |-> c.exchange]

\* "for c, o in zip(contracts, oreq.orders)": the legs of the first n pairs
RECURSIVE ComboLegs(_, _, _)
ComboLegs(contracts, orders, n) ==
    IF n = 0 THEN <<>>
    ELSE AppendLeg(ComboLegs(contracts, orders, n - 1),
                   ComboLegFor(contracts[n], orders[n]))

\* useExchange after the loop: the exchange of the last contract
UseExchange(contracts) == contracts[Len(contracts)].exchange

\* "Bag(symbol=contractUnderlying, exchange=useExchange or exchange,
\*      comboLegs=legs, currency=currency)"
BagFor(contracts, orders, exchange) ==
    [conId |-> 0, secType |-> "BAG", tradingClass |-> "",
     symbol |-> contracts[1].symbol,
     exchange |-> IF UseExchange(contracts) # "" THEN UseExchange(contracts) ELSE exchange,
     comboLegs |-> ComboLegs(contracts, orders, IF Len(contracts) <= Len(orders)
                                                THEN Len(contracts) ELSE Len(orders))]

NoBagCall ==
    [phase |-> "idle", orders |-> <<>>, exchange |-> "", contracts |-> <<>>,
     outcome |-> "", result |-> <<>>]

\* a call of contractForOrderRequest: "spread" while it awaits bagForSpread,
\* "qualifying" while it awaits qualify
NoRequest ==
    [phase |-> "idle", orders |-> <<>>, exchange |-> "", outcome |-> "", result |-> <<>>]

\* bagForSpread(oreq, exchange) up to the await inside "await self.qualify(*contracts)"
BagBegin(orders, exchange) ==
    /\ bag.phase = "idle"
    /\ qcall.phase = "idle"
    /\ LET contracts == [i \in 1..Len(orders) |-> contractForName(orders[i], exchange)] IN
       /\ bag' = [NoBagCall EXCEPT !.phase = "qualifying", !.orders = orders,
                                   !.exchange = exchange, !.contracts = contracts]
       /\ qcall' = BeginCall(contracts)
    /\ UNCHANGED <<fnVars, connVars, schedVars, conIdCache, now, resolvedUntil, quoteVars, orderVars,
                   reqIdSeq, bracket>>

\* qualify is over: its KeyError leaves bagForSpread too; else the contracts, which
\* qualify filled in place, are all qualified and make the Bag, or None is returned
BagResume ==
    /\ bag.phase = "qualifying"
    /\ qcall.phase \in {"returned", "raised"}
    /\ bag' = IF qcall.phase = "raised"
              THEN [bag EXCEPT !.phase = "done", !.contracts = qcall.contracts,
                               !.outcome = "raised"]
              ELSE IF ~(\A i \in 1..Len(qcall.contracts) : qcall.contracts[i].conId # 0)
              THEN [bag EXCEPT !.phase = "done", !.contracts = qcall.contracts,
                               !.outcome = "None"]
              ELSE [bag EXCEPT !.phase = "done", !.contracts = qcall.contracts,
                               !.outcome = "Bag",
                               !.result = <<BagFor(qcall.contracts, bag.orders,
                                                   bag.exchange)>>]
    /\ qcall' = IdleCall
    /\ UNCHANGED <<fnVars, connVars, schedVars, conIdCache, now, resolvedUntil, quoteVars, orderVars,
                   reqIdSeq, bracket>>

\* the call is over
BagEnd ==
    /\ bag.phase = "done"
    /\ creq.phase # "spread"
    /\ bag' = NoBagCall
    /\ UNCHANGED <<fnVars, connVars, schedVars, qualVars, quoteVars, orderVars, reqIdSeq, bracket>>

BagInit == bag = NoBagCall /\ creq = NoRequest

BagNext ==
    \/ \E orders \in SpreadRequests, exchange \in BagExchanges : BagBegin(orders, exchange)
    \/ \E mode \in {"dropped", "unpopulated"} : QualifyReturn(mode)
    \/ BagResume
    \/ BagEnd

-----------------------------------------------------------------------------
(* IBKRCmdlineApp.contractForOrderRequest.                                 *)

\* order requests: none, one or several orders
OrderRequests == {<<>>} \cup [1..1 -> Legs] \cup SpreadRequests

\* oreq.isSpread() and oreq.isSingle() of tradeapis.buylang
isSpread(orders) == Len(orders) > 1

isSingle(orders) == Len(orders) = 1

\* "if contract.conId: return contract", negated
NotValidated(contract) == contract.conId = 0

\* what the frame of a call of contractForOrderRequest leaves alone
requestRest == <<connVars, schedVars, conIdCache, now, resolvedUntil, quoteVars, orderVars,
                 reqIdSeq, bracket, md, cp, aq>>

\* contractForOrderRequest(oreq, exchange) up to its first await: of bagForSpread
\* (which runs up to its await of qualify), or of qualify; or its end
RequestBegin(orders, exchange) ==
    /\ creq.phase = "idle"
    /\ bag.phase = "idle"
    /\ qcall.phase = "idle"
    /\ LET call == [NoRequest EXCEPT !.orders = orders, !.exchange = exchange]
           contracts == [i \in 1..Len(orders) |-> contractForName(orders[i], exchange)]
       IN IF isSpread(orders)
          THEN /\ creq' = [call EXCEPT !.phase = "spread"]
               /\ bag' = [NoBagCall EXCEPT !.phase = "qualifying", !.orders = orders,
                                           !.exchange = exchange, !.contracts = contracts]
               /\ qcall' = BeginCall(contracts)
          ELSE IF isSingle(orders)
          THEN /\ creq' = [call EXCEPT !.phase = "qualifying"]
               /\ qcall' = BeginCall(contracts)
               /\ UNCHANGED bag
          ELSE /\ creq' = [call EXCEPT !.phase = "done", !.outcome = "None"]
               /\ UNCHANGED <<bag, qcall>>
    /\ UNCHANGED requestRest

\* the await is over: "return await self.bagForSpread(oreq, exchange)", or the
\* test of contract.conId after qualify; an exception of either leaves the call
RequestResume ==
    /\ \/ /\ creq.phase = "spread"
          /\ bag.phase = "done"
          /\ creq' = [creq EXCEPT !.phase = "done", !.outcome = bag.outcome,
                                  !.result = bag.result]
          /\ bag' = NoBagCall
          /\ UNCHANGED qcall
       \/ /\ creq.phase = "qualifying"
          /\ qcall.phase \in {"returned", "raised"}
          /\ creq' = IF qcall.phase = "raised"
                     THEN [creq EXCEPT !.phase = "done", !.outcome = "raised"]
                     ELSE IF NotValidated(qcall.contracts[1])
                     THEN [creq EXCEPT !.phase = "done", !.outcome = "None"]
                     ELSE [creq EXCEPT !.phase = "done", !.outcome = "contract",
                                       !.result = <<qcall.contracts[1]>>]
          /\ qcall' = IdleCall
          /\ UNCHANGED bag
    /\ UNCHANGED requestRest

\* the call is over
RequestEnd ==
    /\ creq.phase = "done"
    /\ creq' = NoRequest
    /\ UNCHANGED <<bag, qcall, requestRest>>

RequestNext ==
    \/ \E orders \in OrderRequests, exchange \in BagExchanges : RequestBegin(orders, exchange)
    \/ \E mode \in {"dropped", "unpopulated"} : QualifyReturn(mode)
    \/ BagResume
    \/ RequestResume
    \/ RequestEnd

-----------------------------------------------------------------------------
(* IBKRCmdlineApp.addQuotes, called by the members of one concurrent unit: *)
(* each call names one symbol, which contractForOrderRequest resolves to a  *)
(* contract of the gateway, or to None when the contract has no id.        *)

\* most members that add quotes at the same time
MaxAdders == 2

\* a call of addQuotes: where it is, the contract its symbol resolves to, whether
\* the key was missing from quoteState when the call began, and whether the
\* call skipped the symbol
NoAdd ==
    [pc |-> "idle",
     contract |-> CHOOSE c \in QuoteContracts : c.conId = 1 /\ c.exchange = "SMART",
     absent |-> FALSE, skipped |-> FALSE]

\* a subscribe that relies on what the call saw before its await
MustRequestAsChecked(call, symkey) == call.absent

\* "if symkey not in self.quoteState" of addQuoteFromContract, run after the
\* await of the call
MustRequest(call, symkey) == ~AlreadySubscribed(symkey)

addRest == <<schedVars, now, qcall, resolvedUntil, addCount, keysReturned, orderVars,
             asmVars, connVars, md, cp, creq>>

\* addQuotes(symbols) up to "await asyncio.gather(...)": "if sym in
\* self.quoteState: continue" (byKey: the symbol as typed is the key of its
\* contract), else the request is parsed and resolved
addQuotesBegin(m, contract, byKey) ==
    /\ aq[m].pc = "idle"
    /\ LET symkey == lookupKey(contract)
           began == [NoAdd EXCEPT !.contract = contract,
                                  !.absent = ~AlreadySubscribed(symkey)]
       IN aq' = [aq EXCEPT ![m] =
                    IF byKey /\ AlreadySubscribed(symkey)
                    THEN [began EXCEPT !.pc = "done", !.skipped = TRUE]
                    ELSE [began EXCEPT !.pc = "resolving"]]
    /\ UNCHANGED <<conIdCache, quoteState, mktData, addRest>>

\* the gather returns: "if not contract: ... continue", else
\* addQuoteFromContract(contract)
addQuotesResume(m) ==
    /\ aq[m].pc = "resolving"
    /\ LET c == aq[m].contract
           symkey == lookupKey(c)
       IN IF c.conId = 0
          THEN UNCHANGED <<conIdCache, quoteState, mktData>>
          ELSE /\ conIdCache' = StoreOne(conIdCache, now, c)
               /\ IF MustRequest(aq[m], symkey)
                  THEN /\ quoteState' = [k \in DOMAIN quoteState \cup {symkey} |->
                                            IF k = symkey THEN [contract |-> c]
                                            ELSE quoteState[k]]
                       /\ mktData' = Append(mktData, c)
                  ELSE UNCHANGED <<quoteState, mktData>>
    /\ aq' = [aq EXCEPT ![m].pc = "done"]
    /\ UNCHANGED addRest

\* the member is over
addQuotesEnd(m) ==
    /\ aq[m].pc = "done"
    /\ aq' = [aq EXCEPT ![m] = NoAdd]
    /\ UNCHANGED <<conIdCache, quoteState, mktData, addRest>>

AddInit == aq = [m \in 1..MaxAdders |-> NoAdd]

AddNext ==
    \/ \E m \in 1..MaxAdders, c \in QuoteContracts, byKey \in BOOLEAN :
          addQuotesBegin(m, c, byKey)
    \/ \E m \in 1..MaxAdders : addQuotesResume(m)
    \/ \E m \in 1..MaxAdders : addQuotesEnd(m)

-----------------------------------------------------------------------------
(* IBKRCmdlineApp.midpointBracketBuyOrder.                                 *)

\* largest order id handed out
MaxReqId == 7

\* the ask, in cents, and the stop percentage, in percent
BracketAsks == {1, 250, 999}

BracketPercents == {1, 50, 150}

BracketQtys == {1, 3}

\* the prices of a bracket that come from the bounds are counted in 1/100 cent
PercentScale == 100

\* boundsByPercentDifference(ask, stopPct) of icli.helpers: the band of stopPct
\* percent below and above the price, in 1/100 cent
boundsByPercentDifference(ask, stopPct) ==
    [lower |-> ask * (PercentScale - stopPct), upper |-> ask * (PercentScale + stopPct)]

\* a stop on the wrong side of the entry
LossPriceSwapped(isLong, bounds) == IF isLong THEN bounds.upper ELSE bounds.lower

\* "lossPrice = lower" for a long entry, "lossPrice = upper" for a short one
LossPrice(isLong, bounds) == IF isLong THEN bounds.lower ELSE bounds.upper

\* "trailStop = comply(contract, ask - lower)", or "upper - ask", in cents
TrailStop(contract, isLong, ask, bounds) ==
    IF isLong THEN complyScaled(contract, ask * PercentScale - bounds.lower, PercentScale)
    ELSE complyScaled(contract, bounds.upper - ask * PercentScale, PercentScale)

\* "openLimit = ask + 1", or "ask - 1": a dollar, in cents
OpenLimit(isLong, ask) == IF isLong THEN ask + Dollar ELSE ask - Dollar

OpenAction(isLong) == IF isLong THEN "BUY" ELSE "SELL"

CloseAction(isLong) == IF isLong THEN "SELL" ELSE "BUY"

\* the three orders of lines 1093-1126, with the ids getReqId hands out
ParentOrder(id, isLong, qty, ask) ==
    [orderId |-> id, action |-> OpenAction(isLong), totalQuantity |-> qty,
     parentId |-> 0, transmit |-> FALSE, orderType |-> "LMT",
     lmtPrice |-> OpenLimit(isLong, ask), trailStopPrice |-> 0, auxPrice |-> 0]

ProfitOrder(id, parentId, contract, isLong, qty, ask, bounds) ==
    [orderId |-> id, action |-> CloseAction(isLong), totalQuantity |-> qty,
     parentId |-> parentId, transmit |-> TRUE, orderType |-> "TRAIL LIMIT",
     lmtPrice |-> 0, trailStopPrice |-> LossPrice(isLong, bounds),
     auxPrice |-> TrailStop(contract, isLong, ask, bounds)]

LossOrder(parentId, isLong, qty, bounds) ==
    [orderId |-> 0, action |-> CloseAction(isLong), totalQuantity |-> qty,
     parentId |-> parentId, transmit |-> TRUE, orderType |-> "STP PRT",
     lmtPrice |-> 0, trailStopPrice |-> 0, auxPrice |-> LossPrice(isLong, bounds)]

\* a bracket that hands the stop-loss order out as well
BracketOrdersWithLoss(parent, profit, loss) == <<parent, profit, loss>>

\* "return [parent, profit]  # , loss]"
BracketOrders(parent, profit, loss) == <<parent, profit>>

NoBracket ==
    [done |-> FALSE, isLong |-> TRUE, qty |-> 0, ask |-> 0, stopPct |-> 0,
     returned |-> <<>>, loss |-> <<>>]

\* midpointBracketBuyOrder(contract, isLong, qty, ask, stopPct)
midpointBracketBuyOrder(contract, isLong, qty, ask, stopPct) ==
    /\ ~bracket.done
    /\ reqIdSeq + 2 <= MaxReqId + 1
    /\ LET bounds == boundsByPercentDifference(ask, stopPct)
           parent == ParentOrder(reqIdSeq, isLong, qty, ask)
           profit == ProfitOrder(reqIdSeq + 1, parent.orderId, contract, isLong, qty,
                                 ask, bounds)
           loss == LossOrder(parent.orderId, isLong, qty, bounds)
       IN bracket' = [done |-> TRUE, isLong |-> isLong, qty |-> qty, ask |-> ask,
                      stopPct |-> stopPct,
                      returned |-> BracketOrders(parent, profit, loss),
                      loss |-> <<loss>>]
    /\ reqIdSeq' = reqIdSeq + 2
    /\ UNCHANGED <<fnVars, connVars, schedVars, qualVars, quoteVars, orderVars, bag>>

\* the call is over
BracketEnd ==
    /\ bracket.done
    /\ bracket' = NoBracket
    /\ UNCHANGED <<fnVars, connVars, schedVars, qualVars, quoteVars, orderVars, bag, reqIdSeq>>

BracketInit ==
    /\ reqIdSeq = 1
    /\ bracket = NoBracket

BracketNext ==
    \/ \E c \in {x \in OrderContracts : x.conId # 0}, isLong \in BOOLEAN,
          qty \in BracketQtys, ask \in BracketAsks, stopPct \in BracketPercents :
            midpointBracketBuyOrder(c, isLong, qty, ask, stopPct)
    \/ BracketEnd

AsmInit == BagInit /\ BracketInit

-----------------------------------------------------------------------------
(* The connection supervisor of dorepl: the event handlers, reconnect(),   *)
(* requestMarketData(), the handlers that fill the session caches, and the  *)
(* try/except of the REPL loop.  One entry of each cache is followed: a     *)
(* cache is empty, or holds the stamp of that entry, the number of          *)
(* disconnects that had happened when it was last written.                  *)

\* most disconnects of the gateway connection
MaxDisconnects == 1

\* most disconnects where the calls of reconnect() alone are followed
MaxOverlapDisconnects == 2

\* calls of reconnect() that are followed: the first, awaited by dorepl, and one
\* task per disconnect after it
MaxTasks == MaxOverlapDisconnects + 1

\* most failed awaits of the calls of reconnect(), all together
MaxFails == 1

\* the events of self.ib that dorepl attaches a handler to
StartupKinds ==
    {"accountSummary", "pnl", "orderStatus", "error", "cancelOrder", "commissionReport",
     "newsBulletin", "tickNews", "pendingTickers", "execDetails", "updatePortfolio"}

EventKinds == StartupKinds \cup {"disconnected"}

\* the handlers attached inside the reconnect loop as well
AttachHandlersTwice(h) == [k \in EventKinds |-> IF k \in StartupKinds THEN h[k] + 2 ELSE h[k]]

\* "self.ib.accountSummaryEvent += self.updateSummary" ... "self.ib.
\* updatePortfolioEvent += lambda row: self.updatePosition(row)"
AttachHandlers(h) == [k \in EventKinds |-> IF k \in StartupKinds THEN h[k] + 1 ELSE h[k]]

\* "self.ib.disconnectedEvent += lambda: asyncio.create_task(reconnect())"
AttachDisconnected(h) == [h EXCEPT !["disconnected"] = @ + 1]

\* the exceptions of the two except clauses of the reconnect loop: the four named
\* ones, and any other
FailureKinds ==
    {"ConnectionRefusedError", "ConnectionResetError", "TimeoutError", "CancelledError",
     "Unexpected"}

\* a call of reconnect(): where it is, the epoch it was created in, its failed
\* awaits, what the current pass of the loop has cleared and requested, whether
\* it started a connect while self.exiting was set, and whether its backoff sleep
\* was interrupted
NoTask ==
    [pc |-> "none", born |-> 0, fails |-> 0, cleared |-> FALSE, issued |-> {},
     late |-> FALSE, interrupted |-> FALSE]

\* where a call is inside "while True"
InLoop == {"connecting", "restoring", "summarizing", "sleeping"}

NewTask(e) == [NoTask EXCEPT !.pc = "created", !.born = e]

\* the failed awaits of the calls 1..n
RECURSIVE TotalFails(_)
TotalFails(n) == IF n = 0 THEN 0 ELSE rc[n].fails + TotalFails(n - 1)

\* a failure that ends the loop
OnFailureFatalIfUnexpected(call, kind) ==
    [call EXCEPT !.pc = IF kind = "Unexpected" THEN "failed" ELSE "sleeping",
                 !.fails = @ + 1, !.cleared = FALSE, !.issued = {}]

\* both except clauses log and fall through to "await asyncio.sleep(3)": the
\* pass of the loop is over
OnFailure(call, kind) ==
    [call EXCEPT !.pc = "sleeping", !.fails = @ + 1, !.cleared = FALSE, !.issued = {}]

\* an interrupted sleep that is ignored: the loop goes on
OnBackoffInterruptedIgnored(call) == [call EXCEPT !.pc = "sleeping"]

\* "except: logger.warning('Exit requested during sleep. Goodbye.'); sys.exit(0)"
OnBackoffInterrupted(call) == [call EXCEPT !.pc = "exited"]

\* caches that survive a reconnect
ClearedKept(cache) == cache

\* "self.summary.clear()", and the same of position, order and pnlSingle
Cleared(cache) == {}

\* the top of "while True": "self.connected = False" and the call of connectAsync
BeginAttempt(call) ==
    [call EXCEPT !.pc = "connecting", !.late = @ \/ exiting]

\* the contracts dorepl subscribes to at every connect ("contracts")
DefaultContracts == {c \in QuoteContracts : c.conId = 1 /\ c.exchange = "SMART"}

\* the quotes a saved group can hold
GroupContracts == {c \in QuoteContracts : c.conId = 2}

\* addQuoteFromContract as a function of the registry st (quoteState, mktData and
\* the stamps): the guarded reqMktData of a qualified contract
Subscribed(st, contract, stamp) ==
    LET symkey == lookupKey(contract) IN
    IF symkey \in DOMAIN st.quoteState THEN st
    ELSE [quoteState |-> [k \in DOMAIN st.quoteState \cup {symkey} |->
                             IF k = symkey THEN [contract |-> contract]
                             ELSE st.quoteState[k]],
          mktData |-> Append(st.mktData, contract),
          quoteEra |-> [k \in DOMAIN st.quoteEra \cup {symkey} |->
                           IF k = symkey THEN stamp ELSE st.quoteEra[k]]]

RECURSIVE SubscribedAll(_, _, _)
SubscribedAll(st, contracts, stamp) ==
    IF contracts = <<>> THEN st
    ELSE SubscribedAll(Subscribed(st, Head(contracts), stamp), Tail(contracts), stamp)

\* what requestMarketData subscribes to after "self.quoteState.clear()": the
\* operation "qrestore global" (of icli.lang: the quotes saved under that name),
\* then "for contract in contracts: self.addQuoteFromContract(contract)"
RestoreList == SeqOf(globalGroup) \o SeqOf(DefaultContracts)

\* dorepl up to "await reconnect()": the handlers are attached and the first call
\* of reconnect() begins; the group saved under "global" is what earlier
\* sessions left
Setup ==
    /\ proc = "running"
    /\ repl.pc = "setup"
    /\ handlers' = AttachHandlers(handlers)
    /\ rc' = [rc EXCEPT ![1] = NewTask(epoch)]
    /\ repl' = [repl EXCEPT !.pc = "firstConnect"]
    /\ globalGroup' \in SUBSET GroupContracts
    /\ UNCHANGED <<exiting, proc, connected, link, gatewayUp, epoch, summary, position,
                   orderCache, pnlSingle, quoteEra, isSandbox, firstAccount,
                   schedVars, qualVars, quoteVars, orderVars, asmVars, fnVars>>

\* what a step of reconnect() leaves alone besides rc and what it names
connRest == <<handlers, exiting, repl, epoch, isSandbox, firstAccount, globalGroup,
              schedVars, now, qcall, resolvedUntil, addCount, keysReturned, orderVars,
              asmVars, fnVars>>

\* reconnect() starts: "if self.exiting: return", else the first pass of the loop
StartReconnect(t) ==
    /\ proc = "running"
    /\ rc[t].pc = "created"
    /\ IF exiting
       THEN /\ rc' = [rc EXCEPT ![t].pc = "returned"]
            /\ UNCHANGED connected
       ELSE /\ rc' = [rc EXCEPT ![t] = BeginAttempt(@)]
            /\ connected' = FALSE
    /\ UNCHANGED <<proc, link, gatewayUp, summary, position, orderCache, pnlSingle, quoteEra,
                   conIdCache, quoteState, mktData, connRest>>

\* connectAsync returns: "self.connected = True", reqNewsBulletins, and
\* requestMarketData up to its await (reqMarketDataType, "self.quoteState.clear()")
ConnectReturns(t) ==
    /\ proc = "running"
    /\ rc[t].pc = "connecting"
    /\ gatewayUp
    /\ link' = "up"
    /\ connected' = TRUE
    /\ quoteState' = <<>>
    /\ quoteEra' = <<>>
    /\ rc' = [rc EXCEPT ![t].pc = "restoring", ![t].issued = @ \cup {"newsBulletins"}]
    /\ UNCHANGED <<proc, gatewayUp, summary, position, orderCache, pnlSingle, conIdCache,
                   mktData, connRest>>

\* an await of the try block raises: connectAsync, the gather of
\* requestMarketData, or reqAccountSummaryAsync
AwaitRaises(t, kind) ==
    /\ proc = "running"
    /\ rc[t].pc \in {"connecting", "restoring", "summarizing"}
    /\ ~gatewayUp \/ (link = "down" /\ rc[t].pc # "connecting")
    /\ TotalFails(MaxTasks) < MaxFails
    /\ rc' = [rc EXCEPT ![t] = OnFailure(@, kind)]
    /\ UNCHANGED <<proc, connected, link, gatewayUp, summary, position, orderCache, pnlSingle,
                   quoteEra, conIdCache, quoteState, mktData, connRest>>

\* the gather of requestMarketData returns: the saved quotes and the default
\* contracts are subscribed, the caches are cleared, reqPnL and reqPnLSingle are
\* sent, and reqAccountSummaryAsync is awaited
RestoreReturns(t, portfolio) ==
    /\ proc = "running"
    /\ rc[t].pc = "restoring"
    /\ gatewayUp /\ link = "up"
    /\ LET st == SubscribedAll([quoteState |-> quoteState, mktData |-> mktData,
                                quoteEra |-> quoteEra], RestoreList, epoch)
       IN /\ quoteState' = st.quoteState
          /\ mktData' = st.mktData
          /\ quoteEra' = st.quoteEra
    /\ conIdCache' = StoreOne(conIdCache, now, CHOOSE c \in DefaultContracts : TRUE)
    /\ summary' = Cleared(summary)
    /\ position' = Cleared(position)
    /\ orderCache' = Cleared(orderCache)
    /\ pnlSingle' = IF portfolio THEN {epoch} ELSE Cleared(pnlSingle)
    /\ rc' = [rc EXCEPT ![t].pc = "summarizing", ![t].cleared = TRUE,
                        ![t].issued = @ \cup {"pnl", "accountSummary"}]
    /\ UNCHANGED <<proc, connected, link, gatewayUp, connRest>>

\* reqAccountSummaryAsync returns: "break"
SummaryReturns(t) ==
    /\ proc = "running"
    /\ rc[t].pc = "summarizing"
    /\ gatewayUp /\ link = "up"
    /\ rc' = [rc EXCEPT ![t].pc = "done"]
    /\ UNCHANGED <<proc, connected, link, gatewayUp, summary, position, orderCache, pnlSingle,
                   quoteEra, conIdCache, quoteState, mktData, connRest>>

\* "await asyncio.sleep(3)" returns: the next pass of the loop
BackoffReturns(t) ==
    /\ proc = "running"
    /\ rc[t].pc = "sleeping"
    /\ rc' = [rc EXCEPT ![t] = BeginAttempt(@)]
    /\ connected' = FALSE
    /\ UNCHANGED <<proc, link, gatewayUp, summary, position, orderCache, pnlSingle, quoteEra,
                   conIdCache, quoteState, mktData, connRest>>

\* "await asyncio.sleep(3)" is interrupted or cancelled
BackoffInterrupted(t) ==
    /\ proc = "running"
    /\ rc[t].pc = "sleeping"
    /\ rc' = [rc EXCEPT ![t] = OnBackoffInterrupted([@ EXCEPT !.interrupted = TRUE])]
    /\ proc' = IF rc'[t].pc = "exited" THEN "terminated" ELSE proc
    /\ UNCHANGED <<connected, link, gatewayUp, summary, position, orderCache, pnlSingle,
                   quoteEra, conIdCache, quoteState, mktData, connRest>>

\* what an event or a step of the REPL leaves alone besides what it names
eventRest == <<proc, rc, connected, link, gatewayUp, epoch, quoteEra, globalGroup,
               schedVars, qualVars, quoteVars, orderVars, asmVars, fnVars>>

\* "self.ib.disconnectedEvent += ..." once the first reconnect() has returned, then
\* the prompt
AttachDisconnect ==
    /\ proc = "running"
    /\ repl.pc = "firstConnect"
    /\ rc[1].pc \in {"done", "returned"}
    /\ handlers' = AttachDisconnected(handlers)
    /\ repl' = [repl EXCEPT !.pc = "prompt"]
    /\ UNCHANGED <<exiting, summary, position, orderCache, pnlSingle, isSandbox, firstAccount,
                   eventRest>>

\* the connection drops (or stop() disconnects): every handler of
\* disconnectedEvent creates a task of reconnect()
Disconnected ==
    /\ proc = "running"
    /\ link = "up"
    /\ LET free == {t \in 1..MaxTasks : rc[t].pc = "none"}
           fresh == {t \in free :
                        Cardinality({u \in free : u < t}) < handlers["disconnected"]}
       IN /\ Cardinality(free) >= handlers["disconnected"]
          /\ rc' = [t \in 1..MaxTasks |-> IF t \in fresh THEN NewTask(epoch + 1) ELSE rc[t]]
    /\ link' = "down"
    /\ epoch' = epoch + 1
    /\ UNCHANGED <<handlers, exiting, repl, proc, connected, gatewayUp, summary, position,
                   orderCache, pnlSingle, quoteEra, isSandbox, firstAccount, globalGroup,
                   schedVars, qualVars, quoteVars, orderVars, asmVars, fnVars>>

\* a disconnect of a session
Disconnect ==
    /\ epoch < MaxDisconnects
    /\ Disconnected

\* a disconnect where the calls of reconnect() alone are followed
DisconnectOfLoop ==
    /\ epoch < MaxOverlapDisconnects
    /\ Disconnected

\* the gateway stops or starts answering
GatewayFlips ==
    /\ proc = "running"
    /\ gatewayUp' = ~gatewayUp
    /\ UNCHANGED <<handlers, exiting, repl, proc, rc, connected, link, epoch, summary,
                   position, orderCache, pnlSingle, quoteEra, isSandbox, firstAccount,
                   globalGroup, schedVars, qualVars, quoteVars, orderVars, asmVars, fnVars>>

\* the accounts of summary rows: the aggregate, a live and a paper account
Accounts == {<<"A", "l", "l">>, <<"U", "1">>, <<"D", "U", "1">>}

AllAccounts == <<"A", "l", "l">>

\* a flag that every row decides again
SandboxUndecidedAlways(flag) == TRUE

\* "self.isSandbox is None"
SandboxUndecided(flag) == flag = "None"

\* "v.account.startswith('D')"
SandboxOf(account) == IF Head(account) = "D" THEN "True" ELSE "False"

\* levelName()
levelName ==
    IF isSandbox = "None" THEN "undecided"
    ELSE IF isSandbox = "True" THEN "paper" ELSE "live"

\* accountSummaryEvent: updateSummary(v) for a row of an account
updateSummary(account) ==
    /\ proc = "running"
    /\ link = "up"
    /\ handlers["accountSummary"] > 0
    /\ summary' = {epoch}
    /\ IF SandboxUndecided(isSandbox) /\ account # AllAccounts
       THEN isSandbox' = SandboxOf(account)
       ELSE UNCHANGED isSandbox
    /\ firstAccount' = IF firstAccount = <<>> /\ account # AllAccounts
                       THEN account ELSE firstAccount
    /\ UNCHANGED <<handlers, exiting, repl, position, orderCache, pnlSingle, eventRest>>

\* the other handlers that write a cache: updatePNL (summary), updateOrder
\* (order), updatePosition (position), orderExecuteHandler (pnlSingle)
CacheEvents == {"pnl", "orderStatus", "updatePortfolio", "execDetails"}

CacheEvent(kind) ==
    /\ proc = "running"
    /\ link = "up"
    /\ handlers[kind] > 0
    /\ summary' = IF kind = "pnl" THEN {epoch} ELSE summary
    /\ orderCache' = IF kind = "orderStatus" THEN {epoch} ELSE orderCache
    /\ position' = IF kind = "updatePortfolio" THEN {epoch} ELSE position
    /\ pnlSingle' = IF kind = "execDetails" THEN {epoch} ELSE pnlSingle
    /\ UNCHANGED <<handlers, exiting, repl, isSandbox, firstAccount, eventRest>>

\* what the body of "while True" can raise into the try of the REPL loop, besides
\* returning: the exceptions of the four except clauses, and a cancellation of
\* the task of dorepl, which is a BaseException
ReplExceptions ==
    {"KeyboardInterrupt", "EOFError", "BlockingIOError", "Exception", "CancelledError"}

\* a loop that Control-C ends as well
LoopAfterInterruptEnds(r, exc) ==
    IF exc \in {"EOFError", "KeyboardInterrupt"}
    THEN [r EXCEPT !.pc = "ended", !.eof = @ \/ exc = "EOFError", !.last = exc]
    ELSE IF exc \in {"BlockingIOError", "Exception"} THEN [r EXCEPT !.last = exc]
    ELSE [r EXCEPT !.pc = "ended", !.last = exc, !.raised = exc]

\* the except clauses of the REPL loop: "continue" for KeyboardInterrupt, "break"
\* for EOFError, a log line for BlockingIOError and Exception; anything else is
\* not caught and leaves dorepl
LoopAfter(r, exc) ==
    IF exc = "EOFError" THEN [r EXCEPT !.pc = "ended", !.eof = TRUE, !.last = exc]
    ELSE IF exc \in {"KeyboardInterrupt", "BlockingIOError", "Exception"}
    THEN [r EXCEPT !.last = exc]
    ELSE [r EXCEPT !.pc = "ended", !.last = exc, !.raised = exc]

\* a line is read and its units are run: their failures are caught by
\* runSingleCommand and runCollective
ReplLine ==
    /\ proc = "running"
    /\ repl.pc = "prompt"
    /\ repl' = [repl EXCEPT !.last = "line"]
    /\ UNCHANGED <<handlers, exiting, summary, position, orderCache, pnlSingle, isSandbox,
                   firstAccount, eventRest>>

\* the body raises exc into the try of the loop
ReplRaises(exc) ==
    /\ proc = "running"
    /\ repl.pc = "prompt"
    /\ repl' = LoopAfter(repl, exc)
    /\ exiting' = (exiting \/ exc = "EOFError")
    /\ UNCHANGED <<handlers, summary, position, orderCache, pnlSingle, isSandbox, firstAccount,
                   eventRest>>

NoRepl == [pc |-> "setup", eof |-> FALSE, last |-> "", raised |-> ""]

ConnInit ==
    /\ handlers = [k \in EventKinds |-> 0]
    /\ exiting = FALSE
    /\ repl = NoRepl
    /\ proc = "running"
    /\ rc = [t \in 1..MaxTasks |-> NoTask]
    /\ connected = FALSE
    /\ link = "down"
    /\ gatewayUp = TRUE
    /\ epoch = 0
    /\ summary = {}
    /\ position = {}
    /\ orderCache = {}
    /\ pnlSingle = {}
    /\ quoteEra = <<>>
    /\ isSandbox = "None"
    /\ firstAccount = <<>>
    /\ globalGroup = {}

\* the reconnect loop, the disconnects and the REPL loop
ConnNext ==
    \/ Setup
    \/ \E t \in 1..MaxTasks : StartReconnect(t)
    \/ \E t \in 1..MaxTasks : ConnectReturns(t)
    \/ \E t \in 1..MaxTasks, kind \in FailureKinds : AwaitRaises(t, kind)
    \/ \E t \in 1..MaxTasks, portfolio \in BOOLEAN : RestoreReturns(t, portfolio)
    \/ \E t \in 1..MaxTasks : SummaryReturns(t)
    \/ \E t \in 1..MaxTasks : BackoffReturns(t)
    \/ \E t \in 1..MaxTasks : BackoffInterrupted(t)
    \/ AttachDisconnect
    \/ Disconnect
    \/ GatewayFlips
    \/ ReplLine
    \/ \E exc \in ReplExceptions : ReplRaises(exc)

\* the reconnect loop and the disconnects
LoopNext ==
    \/ Setup
    \/ \E t \in 1..MaxTasks : StartReconnect(t)
    \/ \E t \in 1..MaxTasks : ConnectReturns(t)
    \/ \E t \in 1..MaxTasks, kind \in FailureKinds : AwaitRaises(t, kind)
    \/ \E t \in 1..MaxTasks, portfolio \in BOOLEAN : RestoreReturns(t, portfolio)
    \/ \E t \in 1..MaxTasks : SummaryReturns(t)
    \/ \E t \in 1..MaxTasks : BackoffReturns(t)
    \/ \E t \in 1..MaxTasks : BackoffInterrupted(t)
    \/ AttachDisconnect
    \/ Disconnect
    \/ GatewayFlips

\* the reconnect loop alone, through one disconnect more
OverlapNext ==
    \/ Setup
    \/ \E t \in 1..MaxTasks : StartReconnect(t)
    \/ \E t \in 1..MaxTasks : ConnectReturns(t)
    \/ \E t \in 1..MaxTasks, kind \in FailureKinds : AwaitRaises(t, kind)
    \/ \E t \in 1..MaxTasks, portfolio \in BOOLEAN : RestoreReturns(t, portfolio)
    \/ \E t \in 1..MaxTasks : SummaryReturns(t)
    \/ \E t \in 1..MaxTasks : BackoffReturns(t)
    \/ AttachDisconnect
    \/ DisconnectOfLoop
    \/ GatewayFlips

\* an order of a dollar amount while the connection is lost and made again
WaitNext ==
    \/ Setup
    \/ \E t \in 1..MaxTasks : StartReconnect(t)
    \/ \E t \in 1..MaxTasks : ConnectReturns(t)
    \/ \E t \in 1..MaxTasks, portfolio \in BOOLEAN : RestoreReturns(t, portfolio)
    \/ \E t \in 1..MaxTasks : SummaryReturns(t)
    \/ AttachDisconnect
    \/ Disconnect
    \/ \E c \in OrderContracts, qty \in QtyArgs : PlaceAtPrompt(c, qty)
    \/ AddReturns
    \/ SleepReturns
    \/ SleepCancelled

\* the reconnect loop, the disconnects and the events that fill the caches
SessionNext ==
    \/ Setup
    \/ \E t \in 1..MaxTasks : StartReconnect(t)
    \/ \E t \in 1..MaxTasks : ConnectReturns(t)
    \/ \E t \in 1..MaxTasks, kind \in FailureKinds : AwaitRaises(t, kind)
    \/ \E t \in 1..MaxTasks, portfolio \in BOOLEAN : RestoreReturns(t, portfolio)
    \/ \E t \in 1..MaxTasks : SummaryReturns(t)
    \/ \E t \in 1..MaxTasks : BackoffReturns(t)
    \/ AttachDisconnect
    \/ Disconnect
    \/ GatewayFlips
    \/ \E account \in Accounts : updateSummary(account)
    \/ \E kind \in CacheEvents : CacheEvent(kind)

-----------------------------------------------------------------------------
(* The specifications.                                                     *)

Init ==
    /\ SchedInit /\ QualInit /\ QuoteInit /\ OrderInit /\ SizerInit /\ AsmInit /\ ConnInit
    /\ FnInit /\ AddInit

\* the command scheduler
Next == SchedNext

Spec == Init /\ [][Next]_vars

\* qualify and the contract cache
QualifySpec == Init /\ [][QualNext]_vars

\* the quote registry
QuoteSpec == Init /\ [][QuoteNext]_vars

\* placeOrderForContract
OrderSpec == Init /\ [][OrderNext]_vars

\* quantityForAmount on its own
SizerSpec == Init /\ [][SizerNext]_vars

\* bagForSpread, with qualify
BagSpec == Init /\ [][BagNext]_vars

\* midpointBracketBuyOrder
BracketSpec == Init /\ [][BracketNext]_vars

\* the midpoint derivation
MidSpec == Init /\ [][MidNext]_vars

\* contractForOrderRequest, with bagForSpread and qualify
RequestSpec == Init /\ [][RequestNext]_vars

\* contractsForPosition
PositionSpec == Init /\ [][PositionNext]_vars

\* concurrent calls of addQuotes
AddSpec == Init /\ [][AddNext]_vars

\* the connection supervisor and the REPL loop
ConnSpec == Init /\ [][ConnNext]_vars

\* the connection supervisor and the session caches
SessionSpec == Init /\ [][SessionNext]_vars

\* the quote wait of placeOrderForContract beside the connection supervisor
WaitSpec == Init /\ [][WaitNext]_vars

\* the calls of reconnect() that successive disconnects create
OverlapSpec == Init /\ [][OverlapNext]_vars

\* the call t of reconnect() is resumed: it starts, or an await of it returns
Resumed(t) ==
    \/ StartReconnect(t)
    \/ ConnectReturns(t)
    \/ \E portfolio \in BOOLEAN : RestoreReturns(t, portfolio)
    \/ SummaryReturns(t)
    \/ BackoffReturns(t)

\* the event loop resumes every call of reconnect() whose await has returned
ConnLiveSpec ==
    /\ Init
    /\ [][LoopNext]_vars
    /\ \A t \in 1..MaxTasks : WF_vars(Resumed(t))

-----------------------------------------------------------------------------
(* Properties of the command scheduler.                                    *)

\* the cleaned, non-empty tokens of a list of split pieces, in input order, each
\* with its background marker
RECURSIVE CleanTokens(_)
CleanTokens(pieces) ==
    IF pieces = <<>> THEN <<>>
    ELSE
        LET stripped == Strip(Head(pieces)) IN
        IF stripped = <<>> THEN CleanTokens(Tail(pieces))
        ELSE IF stripped[Len(stripped)] = "&"
        THEN <<[bg |-> TRUE, full |-> RStrip(SubSeq(stripped, 1, Len(stripped) - 1))]>>
                 \o CleanTokens(Tail(pieces))
        ELSE <<[bg |-> FALSE, full |-> stripped]>> \o CleanTokens(Tail(pieces))

UnitTokens(unit) ==
    [i \in 1..Len(unit.cmds) |-> [bg |-> unit.kind = "collective", full |-> unit.cmds[i].full]]

\* the commands of the units, in unit order and member order
RECURSIVE Flatten(_)
Flatten(rs) == IF rs = <<>> THEN <<>> ELSE UnitTokens(Head(rs)) \o Flatten(Tail(rs))

Entry(c) == [cmd |-> <<c>>, rest |-> <<>>, full |-> <<c>>]

\* C1: the units are the maximal runs of '&' tokens (one concurrent unit each,
\* members in input order) and the other tokens (one sequential unit each), in
\* input order, every token in exactly one unit; "a&; b&; c; d&; e&" gives
\* concurrent{a,b}, sequential{c}, concurrent{d,e}.
C1_Grouping ==
    /\ Flatten(runnables) = CleanTokens(ccmdsOf(text1))
    /\ \A u \in 1..Len(runnables) :
          /\ Len(runnables[u].cmds) >= 1
          /\ runnables[u].kind = "single" => Len(runnables[u].cmds) = 1
    /\ \A u \in 1..(Len(runnables) - 1) :
          ~(runnables[u].kind = "collective" /\ runnables[u + 1].kind = "collective")
    /\ text1 = ExampleGroups =>
          runnables = << [kind |-> "collective", cmds |-> <<Entry("a"), Entry("b")>>],
                         [kind |-> "single", cmds |-> <<Entry("c")>>],
                         [kind |-> "collective", cmds |-> <<Entry("d"), Entry("e")>>] >>

C1_Witness ==
    /\ text1 = ExampleGroups
    /\ Len(runnables) = 3
    /\ pc = "finished"

\* C2: no operation of a later unit starts before every member of every earlier
\* unit has finished (returned or raised).
C2_UnitsStrictlyOrdered ==
    \A i, j \in 1..Len(task) :
        (i < j /\ \E m \in 1..Len(task[j]) : task[j][m] # "created")
            => \A m \in 1..Len(task[i]) : Finished(task[i][m])

\* C3: in a concurrent unit whose runCollective has returned, no member was
\* cancelled, and every exception a member raised has been logged.
C3_MemberFailuresLogged ==
    \A u \in 1..Len(task) :
        (runnables[u].kind = "collective" /\ (pc = "finished" \/ (pc = "running" /\ u < ui)))
            => \A m \in 1..Len(task[u]) :
                  /\ task[u][m] \in {"running", "done", "raised"}
                  /\ task[u][m] = "raised" => \E l \in logs : l.unit = u /\ l.member = m

\* C4: a failing unit never keeps a later unit from being awaited: while unit ui
\* is awaited every unit up to it was started, and the body of the loop ends (to
\* prompt again) only after every unit of the line was started.
C4_AllUnitsStarted ==
    /\ pc \in {"prompt", "running", "finished"}
    /\ pc = "running" =>
          /\ ui \in 1..Len(runnables)
          /\ \A u \in 1..ui : \A m \in 1..Len(task[u]) : task[u][m] # "created"
    /\ pc = "finished" =>
          /\ Len(task) = Len(runnables)
          /\ \A u \in 1..Len(task) : \A m \in 1..Len(task[u]) : task[u][m] # "created"

C4_Witness ==
    /\ pc = "finished"
    /\ text1 = ExampleGroups
    /\ task[1][1] = "raised"
    /\ task[2][1] = "raised"
    /\ task[3][2] = "done"

\* the text of a line before its first '#'
RECURSIVE BeforeHash(_)
BeforeHash(line) ==
    IF line = <<>> THEN <<>>
    ELSE IF Head(line) = "#" THEN <<>>
    ELSE <<Head(line)>> \o BeforeHash(Tail(line))

\* line by line: cut each line at its '#', split what is left on ';'
RECURSIVE LinePieces(_)
LinePieces(lines) ==
    IF lines = <<>> THEN <<>>
    ELSE SplitAcc(BeforeHash(Head(lines)), {";"}, <<>>) \o LinePieces(Tail(lines))

\* C5: the commands dispatched for a line are exactly the commands that stand
\* before the first '#' of their own line; "a; b; # c; d" runs only a and b.
C5_CommentsStripped ==
    /\ Flatten(runnables) = CleanTokens(LinePieces(SplitAcc(text1, {"\n"}, <<>>)))
    /\ text1 = ExampleComment =>
          Flatten(runnables) = << [bg |-> FALSE, full |-> <<"a">>],
                                  [bg |-> FALSE, full |-> <<"b">>] >>

C5_Witness ==
    /\ text1 = ExampleLines
    /\ pc = "finished"
    /\ Flatten(runnables) = << [bg |-> FALSE, full |-> <<"a">>],
                               [bg |-> TRUE, full |-> <<"d", " ", "x">>],
                               [bg |-> FALSE, full |-> <<"e">>] >>

-----------------------------------------------------------------------------
(* Properties of the quote registry.                                       *)

\* the gateway's market data requests whose contract has the key k
RequestsFor(k) == {i \in 1..Len(mktData) : lookupKey(mktData[i]) = k}

\* C6: whatever the number of calls, addQuoteFromContract returns one key per
\* contract, the gateway has received exactly one market data request for every
\* key of quoteState and none for any other key, and quoteState holds the Ticker
\* of that request.
C6_IdempotentSubscribe ==
    /\ \A c \in QuoteContracts :
          /\ Cardinality(keysReturned[c]) <= 1
          /\ (c.conId # 0 /\ addCount[c] > 0) =>
                /\ keysReturned[c] = {lookupKey(c)}
                /\ lookupKey(c) \in DOMAIN quoteState
    /\ \A i \in 1..Len(mktData) :
          /\ Cardinality(RequestsFor(lookupKey(mktData[i]))) = 1
          /\ lookupKey(mktData[i]) \in DOMAIN quoteState
    /\ \A k \in DOMAIN quoteState :
          /\ Cardinality(RequestsFor(k)) = 1
          /\ \A i \in RequestsFor(k) : quoteState[k].contract = mktData[i]

C6_Witness ==
    \E c \in QuoteContracts :
        /\ c.conId # 0
        /\ addCount[c] = 2
        /\ keysReturned[c] = {lookupKey(c)}
        /\ Cardinality(RequestsFor(lookupKey(c))) = 1
        /\ Len(mktData) = 2

-----------------------------------------------------------------------------
(* Properties of qualify.                                                  *)

\* C7: qualify never raises, and its result has one element per input, in input
\* order: the contract of the input's own instrument, or, for an input that does
\* not qualify, that input itself without an id.
C7_OrderPreserving ==
    /\ qcall.phase # "raised"
    /\ qcall.phase = "returned" =>
          /\ Len(qcall.result) = Len(qcall.raw)
          /\ \A i \in 1..Len(qcall.raw) :
                IF Qualifies(qcall.raw[i])
                THEN \E e \in Matches(qcall.raw[i]) :
                        qcall.result[i].contract.conId = e.conId
                ELSE /\ qcall.result[i].contract.conId = 0
                     /\ qcall.result[i].contract.symbol = qcall.raw[i].symbol

\* C8: the gateway is asked for exactly the inputs without a live cache entry, is
\* not asked at all when there is none, and is never asked again for a descriptor
\* whose earlier resolution is still cached.
C8_OnlyUncachedSent ==
    qcall.phase = "awaiting" =>
        /\ qcall.sent # {}
        /\ qcall.sent = {i \in 1..Len(qcall.raw) :
                            ~CacheHas(conIdCache, qcall.sentAt, IdKey(qcall.raw[i].conId))}
        /\ \A i \in qcall.sent : resolvedUntil[qcall.raw[i]] <= qcall.sentAt

\* every entry of the cache is the entry of a contract with an id, found under
\* both of its keys
C9_Entries ==
    \A k \in DOMAIN conIdCache :
        LET c == conIdCache[k].contract IN
        /\ c.conId # 0
        /\ k \in {IdKey(c.conId), SymKey(c)}
        /\ IdKey(c.conId) \in DOMAIN conIdCache
        /\ SymKey(c) \in DOMAIN conIdCache
        /\ conIdCache[IdKey(c.conId)] = conIdCache[SymKey(c)]

\* the cache changes only when the gateway's answer is stored: both keys of every
\* returned contract with an id then hold that contract for 30 days from now, and
\* every other key is as it was
C9_Stores ==
    IF qcall.phase = "awaiting" /\ qcall'.phase # "awaiting"
    THEN LET withId == {k \in 1..Len(qcall'.returned) : qcall'.returned[k].conId # 0}
             keys == UNION {{IdKey(qcall'.returned[k].conId), SymKey(qcall'.returned[k])} :
                               k \in withId}
         IN
         /\ \A k \in withId :
               LET c == qcall'.returned[k] IN
               \A key \in {IdKey(c.conId), SymKey(c)} :
                   /\ key \in DOMAIN conIdCache'
                   /\ conIdCache'[key].contract.conId = c.conId
                   /\ conIdCache'[key].contract.localSymbol = c.localSymbol
                   /\ conIdCache'[key].contract.symbol = c.symbol
                   /\ conIdCache'[key].expire_time = now + 30 * 86400
         /\ DOMAIN conIdCache' = DOMAIN conIdCache \cup keys
         /\ \A key \in DOMAIN conIdCache \ keys : conIdCache'[key] = conIdCache[key]
    ELSE conIdCache' = conIdCache

\* C9: the cache holds entries only for contracts with a non-zero id; a returned
\* contract with an id is stored under its conId and under (localSymbol, symbol),
\* both with the same contract and a 30 day expiry; one without an id changes
\* nothing.
C9_CacheOnlyQualified == [](C9_Entries) /\ [][C9_Stores]_vars

C9_Witness ==
    /\ qcall.phase = "returned"
    /\ \E k \in 1..Len(qcall.returned) : qcall.returned[k].conId = 0
    /\ \E k \in 1..Len(qcall.returned) :
          /\ qcall.returned[k].conId # 0
          /\ IdKey(qcall.returned[k].conId) \in DOMAIN conIdCache
          /\ conIdCache[IdKey(qcall.returned[k].conId)].expire_time = now + Expire

\* C10: no contract in the cache has an exchange, and every contract the gateway
\* returned is handed back with the exchange it came back with.
C10_ExchangeNotPersisted ==
    /\ \A k \in DOMAIN conIdCache : conIdCache[k].contract.exchange = None
    /\ qcall.phase = "returned" =>
          \A k \in 1..Len(qcall.got) :
              /\ qcall.contracts[qcall.got[k]].exchange = qcall.returned[k].exchange
              /\ \A i \in 1..Len(qcall.result) :
                    (qcall.result[i].from = "input" /\ qcall.result[i].pos = qcall.got[k])
                        => qcall.result[i].contract.exchange = qcall.returned[k].exchange

C10_Witness ==
    /\ qcall.phase = "returned"
    /\ Len(qcall.result) = 2
    /\ qcall.result[1].from = "input"
    /\ qcall.result[1].contract.exchange = "CBOE"
    /\ qcall.result[2].from = "cache"
    /\ conIdCache[IdKey(2)].contract.exchange = None

-----------------------------------------------------------------------------
(* Properties of currentQuote, quantityForAmount and placeOrderForContract. *)

\* C11: currentQuote returns the pair (bid, ask) only if at least one of bid and
\* ask is a positive number that is not nan; for every other combination of nan,
\* -1, 0 and a price it returns None.
C11_UsableQuotePolicy ==
    po.polls > 0 =>
        (po.quote # <<>> =>
            PositiveNumber(po.seen.bid) \/ PositiveNumber(po.seen.ask))

\* C12: the quote wait of a dollar amount is bounded. The quote is polled at most
\* QuoteRetries (10) times, every poll that gets no quote is followed by one sleep,
\* the polls left shrink with every poll, and a call that never got a quote ends
\* after the tenth poll by returning nothing, with no request sent to the gateway.
C12_QuoteWaitBounded ==
    /\ po.polls <= QuoteRetries
    /\ po.polls > 0 => po.sleeps = (IF po.quote = <<>> THEN po.polls ELSE po.polls - 1)
    /\ po.phase = "sleeping" =>
          /\ po.quote = <<>>
          /\ po.loopFor >= 1
          /\ po.loopFor = QuoteRetries + 1 - po.polls
    /\ (po.phase = "done" /\ po.polls > 0 /\ po.quote = <<>> /\ ~po.cancelled) =>
          /\ po.polls = QuoteRetries
          /\ po.loopFor = 0
          /\ po.outcome = "None"
          /\ po.sent = <<>>

\* a call that polled ten times, never got a quote, and returned nothing
C12_Witness ==
    /\ po.phase = "done"
    /\ po.polls = QuoteRetries
    /\ po.sleeps = QuoteRetries
    /\ po.quote = <<>>
    /\ ~po.cancelled
    /\ po.outcome = "None"

\* C13: when the sleep of the quote wait is cancelled, the call ends at once,
\* returns nothing, has sent no request to the gateway, and quoteState and the
\* contract cache are what they were when the wait began.
C13_CancelledWaitUnwinds ==
    po.cancelled =>
        /\ po.phase = "done"
        /\ po.outcome = "None"
        /\ po.sent = <<>>
        /\ quoteState = po.waitQuoteState
        /\ conIdCache = po.waitCache

\* a cancelled wait for a subscribed, cached contract, after more than one poll
C13_Witness ==
    /\ po.cancelled
    /\ po.polls > 1
    /\ lookupKey(po.contract) \in DOMAIN quoteState
    /\ CacheHas(conIdCache, now, IdKey(po.contract.conId))

\* C14 as stated: whenever the price argument is positive, the limit price of the
\* order is that price as comply rounds it, for every quantity argument, a
\* negative one (a dollar amount) included.
C14_ExplicitPriceAlwaysUsed ==
    \A i \in DOMAIN po.sent :
        po.priceArg > 0 =>
            po.sent[i].order.lmtPrice = comply(po.contract, po.priceArg)

\* C14, amended: with a positive price argument and a positive quantity argument
\* the limit price of the order is the price argument as comply rounds it; with a
\* negative quantity argument (a dollar amount) the limit price is the one derived
\* from the quote, whatever the price argument was.
C14_ExplicitPriceForUnits ==
    \A i \in DOMAIN po.sent :
        /\ (po.qtyArg > 0 /\ po.priceArg > 0) =>
              po.sent[i].order.lmtPrice = comply(po.contract, po.priceArg)
        /\ po.qtyArg < 0 =>
              po.sent[i].order.lmtPrice =
                  comply(po.contract,
                         DerivedMid(po.contract, po.isLong, po.seen.bid, po.seen.ask).v)

\* an order of a number of units whose price argument comply had to round
C14_Witness ==
    /\ po.outcome = "placed"
    /\ po.qtyArg > 0
    /\ po.priceArg > 0
    /\ comply(po.contract, po.priceArg) # po.priceArg
    /\ po.sent[1].order.lmtPrice = comply(po.contract, po.priceArg)

\* the divisor of quantityForAmount as C15 words it: the price times the
\* multiplier for an option, the price alone for every other class
C15_Divisor == sz.limitPrice * (IF sz.contract.secType = "OPT"
                                THEN (IF sz.contract.multiplier = 0 THEN 1
                                      ELSE sz.contract.multiplier)
                                ELSE 1)

\* a call of quantityForAmount with a positive amount and a positive price
C15_Called == sz.done /\ sz.amount > 0 /\ sz.limitPrice > 0

\* the quotient amount / divisor has no more than RoundDigits decimals
C15_ExactQuotient ==
    FracDigits(sz.amount % C15_Divisor, C15_Divisor, RoundDigits, 0).rem = 0

\* the quotient rounds (to RoundDigits decimals) to zero: 2 * 10^8 * amount <= divisor
C15_RoundsToZero == sz.amount <= C15_Divisor \div (2 * Pow10(RoundDigits))

\* the quotient rounds up to the next whole number:
\* 2 * 10^8 * (divisor - remainder) <= divisor
C15_RoundsUpToWhole ==
    C15_Divisor - (sz.amount % C15_Divisor) <= C15_Divisor \div (2 * Pow10(RoundDigits))

\* C15 as stated: quantityForAmount is floor(amount / (price x m)) for every class
\* but crypto, m the multiplier for an option and 1 otherwise, and the quotient
\* itself for crypto.
C15_FloorOfQuotient ==
    C15_Called =>
        /\ sz.result.exc = ""
        /\ sz.contract.secType # "CRYPTO" =>
              sz.result.qty = Quantity(sz.amount \div C15_Divisor, 0)
        /\ sz.contract.secType = "CRYPTO" =>
              /\ C15_ExactQuotient
              /\ sz.result.qty.units = sz.amount \div C15_Divisor

\* C15, amended: the quotient amount / (price x m), m the multiplier for an option
\* and 1 otherwise, is first rounded to 8 decimals. If that is zero the call
\* raises AssertionError. Otherwise the result is the rounded quotient for crypto,
\* and its floor for every other class: floor(amount / (price x m)), or one more
\* when the quotient is within 0.000000005 below the next whole number. An option
\* at 2.50 with multiplier 100 and 1000 to spend gives 4; a stock at 50 gives 20.
C15_FloorOfRoundedQuotient ==
    /\ C15_Called =>
          IF C15_RoundsToZero
          THEN sz.result.exc = "AssertionError"
          ELSE /\ sz.result.exc = ""
               /\ sz.contract.secType # "CRYPTO" =>
                     sz.result.qty =
                         Quantity((sz.amount \div C15_Divisor)
                                     + (IF C15_RoundsUpToWhole THEN 1 ELSE 0), 0)
               /\ sz.contract.secType = "CRYPTO" =>
                     /\ sz.result.qty = Round8(sz.amount, C15_Divisor)
                     /\ sz.result.qty.frac < Pow10(RoundDigits)
                     /\ sz.result.qty.units - (sz.amount \div C15_Divisor) \in {0, 1}
                     /\ C15_ExactQuotient =>
                           sz.result.qty.units = sz.amount \div C15_Divisor
    /\ (sz.done /\ sz.contract.secType = "OPT" /\ sz.contract.multiplier = 100
            /\ sz.amount = 100000 /\ sz.limitPrice = 250) =>
          sz.result = Sized(Quantity(4, 0))
    /\ (sz.done /\ sz.contract.secType = "STK" /\ sz.amount = 100000
            /\ sz.limitPrice = 5000) =>
          sz.result = Sized(Quantity(20, 0))

\* the future with a multiplier, sized as if it had none
C15_Witness ==
    /\ sz.done
    /\ sz.contract.secType = "FUT"
    /\ sz.contract.multiplier = 5
    /\ sz.amount = 100000
    /\ sz.limitPrice = 5000
    /\ sz.result = Sized(Quantity(20, 0))

\* a dollar amount that buys less than one unit of a contract that is not crypto
C16_BuysLessThanOne ==
    /\ po.dynamic
    /\ po.contract.secType # "CRYPTO"
    /\ po.price > 0
    /\ (0 - po.qtyArg) < po.price * (IF po.contract.secType = "OPT"
                                     THEN MultiplierOf(po.contract) ELSE 1)

\* every order passed to the gateway has a positive quantity
C16_SentPositive ==
    \A i \in DOMAIN po.sent : PositiveQty(po.sent[i].order.totalQuantity)

\* C16: whenever the dollar amount buys less than one whole unit of a
\* contract that is not crypto, placeOrderForContract returns a failure value,
\* raises nothing and sends nothing to the gateway; and no order of a quantity
\* <= 0 is ever passed to the gateway.
C16_ZeroQuantityReturnsFailure ==
    /\ C16_SentPositive
    /\ C16_BuysLessThanOne =>
          /\ po.phase = "done"
          /\ po.outcome = "None"
          /\ po.sent = <<>>

\* C17: placeOrder and the preview request never get a contract with conId 0 that
\* does not carry the combination marker; for such a contract the call returns a
\* failure and sends nothing.
C17_QualificationGate ==
    /\ \A i \in DOMAIN po.sent :
          po.sent[i].contract.conId # 0 \/ po.sent[i].contract.tradingClass = "COMB"
    /\ (po.phase \notin {"idle", "adding"} /\ po.contract.conId = 0
            /\ po.contract.tradingClass # "COMB") =>
          /\ po.phase = "done"
          /\ po.outcome = "None"
          /\ po.sent = <<>>

\* a spread built without the marker was turned away
C17_Witness ==
    /\ po.phase = "done"
    /\ po.contract.conId = 0
    /\ po.contract.secType = "BAG"
    /\ po.contract.tradingClass # "COMB"
    /\ po.outcome = "None"
    /\ po.sent = <<>>

-----------------------------------------------------------------------------
(* Properties of bagForSpread and midpointBracketBuyOrder.                 *)

\* a leg names an instrument the gateway knows
LegResolves(leg) == Qualifies(contractForName(leg, "SMART"))

\* C18: bagForSpread is all-or-nothing. When at least one leg does not qualify it
\* returns None: it raises nothing and returns no combination; and it returns a
\* combination only when every leg has an id that is not zero.
C18_AllOrNothing ==
    bag.phase = "done" =>
        /\ (\E i \in DOMAIN bag.orders : ~LegResolves(bag.orders[i])) =>
              bag.outcome = "None"
        /\ bag.outcome = "Bag" =>
              /\ \A i \in DOMAIN bag.contracts : bag.contracts[i].conId # 0
              /\ Len(bag.result[1].comboLegs) = Len(bag.orders)

\* the catalogue entry a leg names
LegEntry(leg) == CHOOSE e \in Catalogue : e \in Matches(contractForName(leg, "SMART"))

\* C19: a combination returned by bagForSpread has one leg per request leg, in
\* request order; leg i carries the id of the instrument the i-th request leg
\* names, that request leg's ratio, BUY if it is a buy and SELL if not, and the
\* exchange of the i-th resolved contract; the combination's symbol is the symbol
\* of the first resolved leg.
C19_LegsFollowRequest ==
    bag.outcome = "Bag" =>
        LET b == bag.result[1] IN
        /\ Len(b.comboLegs) = Len(bag.orders)
        /\ \A i \in DOMAIN bag.orders :
              /\ b.comboLegs[i].conId = LegEntry(bag.orders[i]).conId
              /\ b.comboLegs[i].conId = bag.contracts[i].conId
              /\ b.comboLegs[i].ratio = bag.orders[i].multiplier
              /\ b.comboLegs[i].action = (IF bag.orders[i].isBuy THEN "BUY" ELSE "SELL")
              /\ b.comboLegs[i].exchange = bag.contracts[i].exchange
              /\ b.comboLegs[i].exchange =
                    (IF bag.exchange = "SMART" THEN "SMART"
                     ELSE LegEntry(bag.orders[i]).exchange)
        /\ b.symbol = LegEntry(bag.orders[1]).symbol
        /\ b.symbol = bag.contracts[1].symbol

\* a combination of two different instruments, bought and sold at different
\* ratios, each leg on its own exchange
C19_Witness ==
    /\ bag.outcome = "Bag"
    /\ Len(bag.result[1].comboLegs) = 2
    /\ bag.result[1].comboLegs[1].conId = 2
    /\ bag.result[1].comboLegs[2].conId = 1
    /\ bag.result[1].comboLegs[1].action = "SELL"
    /\ bag.result[1].comboLegs[2].action = "BUY"
    /\ bag.result[1].comboLegs[1].ratio # bag.result[1].comboLegs[2].ratio
    /\ bag.result[1].comboLegs[1].exchange # bag.result[1].comboLegs[2].exchange
    /\ bag.result[1].symbol = <<"S">>

\* C20: for every bracket of midpointBracketBuyOrder with a positive entry price
\* and a positive stop percentage, the profit order's parentId is the parent's
\* orderId, the two order ids differ, the parent buys and the exit sells for a long
\* entry (the reverse for a short one), and the stop price is below the entry
\* price for a long entry and above it for a short one.
C20_BracketLinkage ==
    (bracket.done /\ bracket.ask > 0 /\ bracket.stopPct > 0) =>
        LET parent == bracket.returned[1]
            profit == bracket.returned[2]
        IN /\ profit.parentId = parent.orderId
           /\ profit.orderId # parent.orderId
           /\ parent.action = (IF bracket.isLong THEN "BUY" ELSE "SELL")
           /\ profit.action = (IF bracket.isLong THEN "SELL" ELSE "BUY")
           /\ bracket.isLong => profit.trailStopPrice < bracket.ask * PercentScale
           /\ ~bracket.isLong => profit.trailStopPrice > bracket.ask * PercentScale
           /\ bracket.loss[1].auxPrice = profit.trailStopPrice

\* a short bracket whose parent did not get the first order id
C20_Witness ==
    /\ bracket.done
    /\ ~bracket.isLong
    /\ bracket.ask > 0
    /\ bracket.stopPct > 0
    /\ bracket.returned[1].orderId > 1
    /\ bracket.returned[1].action = "SELL"
    /\ bracket.returned[2].trailStopPrice > bracket.ask * PercentScale

-----------------------------------------------------------------------------
(* Properties of the bracket's submitted set, and of the option midpoint.  *)

C30_OptionMidpoint ==
    (po.polls > 0 /\ po.quote # <<>> /\ isOption(po.contract)) =>
        LET bid == po.seen.bid
            ask == po.seen.ask
        IN /\ (~bid.nan /\ ~ask.nan /\ ~NoBid(bid)) =>
                  /\ po.dynamic
                  /\ po.price = comply(po.contract, RoundHalfEven(bid.v + ask.v, 2))
           /\ ((bid.nan \/ NoBid(bid)) /\ PositiveNumber(ask)) =>
                  /\ po.dynamic
                  /\ po.price = comply(po.contract, RoundHalfEven(ask.v, 2))

-----------------------------------------------------------------------------
(* Properties of the connection supervisor.                                *)

\* C23: once dorepl has attached its handlers, every startup event kind has
\* exactly one handler, whatever the disconnects, reconnects and failed attempts
\* since; the disconnect event has none before the first reconnect() returned and
\* exactly one after, so a disconnect creates at most one call of reconnect().
C23_OneHandlerPerKind ==
    /\ repl.pc # "setup" => \A k \in StartupKinds : handlers[k] = 1
    /\ repl.pc \in {"setup", "firstConnect"} => handlers["disconnected"] = 0
    /\ repl.pc \in {"prompt", "ended"} => handlers["disconnected"] = 1
    /\ \A e \in 1..MaxDisconnects :
           Cardinality({t \in 1..MaxTasks : rc[t].pc # "none" /\ rc[t].born = e}) <= 1

\* a reconnect after a disconnect at the prompt that failed once and then
\* connected
C23_Witness ==
    /\ repl.pc = "prompt"
    /\ epoch >= 1
    /\ \E t \in 1..MaxTasks : rc[t].born >= 1 /\ rc[t].fails >= 1 /\ rc[t].pc = "done"

\* C24: no call of reconnect() starts a connect attempt while self.exiting is
\* set, be it the first attempt of the call or a retry of its loop.
C24_NoAttemptWhileExiting == \A t \in 1..MaxTasks : ~rc[t].late

\* C25: a failed await of the loop, whatever was raised, leaves the call in the
\* backoff sleep; and if from some time on the gateway answers and the awaits of
\* the setup do not fail, and no exit is requested, every call of reconnect()
\* reaches "break".
C25_RetriesUntilConnected ==
    /\ [][\A t \in 1..MaxTasks :
              rc'[t].fails > rc[t].fails => rc'[t].pc = "sleeping"]_vars
    /\ \A t \in 1..MaxTasks :
           (/\ <>[](gatewayUp /\ \A u \in 1..MaxTasks :
                        rc[u].pc \in {"restoring", "summarizing"} => link = "up")
            /\ [](~exiting /\ proc = "running"))
           => ((rc[t].pc \in InLoop \cup {"created"}) ~> (rc[t].pc = "done"))

\* a call that failed and then reached "break"
C25_Witness ==
    \E t \in 1..MaxTasks : rc[t].fails >= 1 /\ rc[t].pc = "done" /\ connected /\ ~exiting

\* C26: a call whose backoff sleep was interrupted has exited and the process
\* has terminated, after which nothing happens; the process terminates in no
\* other way, and a call that is past the loop is at "break" or has exited.
C26_InterruptedSleepExits ==
    /\ [](\A t \in 1..MaxTasks :
              /\ rc[t].interrupted <=> rc[t].pc = "exited"
              /\ rc[t].pc \in {"none", "created", "returned", "done", "exited"} \cup InLoop
              /\ rc[t].pc = "done" => rc[t].cleared)
    /\ [](proc = "terminated" <=> \E t \in 1..MaxTasks : rc[t].interrupted)
    /\ [][proc = "running"]_vars

\* a call that failed, was interrupted in its sleep and ended the process
C26_Witness ==
    /\ proc = "terminated"
    /\ \E t \in 1..MaxTasks : rc[t].pc = "exited" /\ rc[t].fails >= 1 /\ ~rc[t].cleared

\* C27: a call of reconnect() that is at "break" has, in its last pass, cleared
\* the caches and sent the three requests, and no cache entry and no quote
\* subscription is older than the disconnect that created the call.
C27_NothingStaleAfterReconnect ==
    \A t \in 1..MaxTasks :
        rc[t].pc = "done" =>
            /\ rc[t].cleared
            /\ rc[t].issued = {"newsBulletins", "pnl", "accountSummary"}
            /\ \A stamp \in summary \cup position \cup orderCache \cup pnlSingle :
                   stamp >= rc[t].born
            /\ DOMAIN quoteEra = DOMAIN quoteState
            /\ \A k \in DOMAIN quoteEra : quoteEra[k] >= rc[t].born

\* a call created by a disconnect is at "break", with the default quote
\* subscribed again and caches that are empty or were written since
C27_Witness ==
    \E t \in 1..MaxTasks :
        /\ rc[t].pc = "done"
        /\ rc[t].born >= 1
        /\ position = {}
        /\ orderCache = {epoch}
        /\ \E k \in DOMAIN quoteEra : quoteEra[k] = epoch

\* C28: isSandbox is None exactly while no row of an account other than "All"
\* has arrived, is otherwise what the first such row decided, and once decided
\* is changed by no step.
C28_SandboxDecidedOnce ==
    /\ [](isSandbox = "None" <=> firstAccount = <<>>)
    /\ [](firstAccount # <<>> => isSandbox = SandboxOf(firstAccount))
    /\ [](levelName = "undecided" <=> firstAccount = <<>>)
    /\ [][isSandbox # "None" => isSandbox' = isSandbox]_vars

\* a paper account was decided, and rows arrived after a later reconnect
C28_Witness ==
    /\ isSandbox = "True"
    /\ levelName = "paper"
    /\ epoch >= 1
    /\ summary = {epoch}
    /\ \E t \in 1..MaxTasks : rc[t].born >= 1 /\ rc[t].pc = "done"

\* C29: the REPL loop has ended only if an EOF was received, and exiting is set
\* only if an EOF was received.
C29_EndsOnlyOnEOF ==
    /\ repl.pc = "ended" => repl.eof
    /\ exiting => repl.eof

\* C29, amended: the REPL loop has ended only after an EOF, or after an
\* exception outside the Exception class (a cancellation) that it does not
\* catch; exiting is set exactly when an EOF was received; and after a keyboard
\* interrupt, a BlockingIOError, any Exception or a line the loop is at the
\* prompt.
C29_EndsOnEOFOrCancellation ==
    /\ repl.pc = "ended" => (repl.eof \/ repl.raised = "CancelledError")
    /\ exiting <=> repl.eof
    /\ repl.eof => (repl.pc = "ended" /\ repl.last = "EOFError")
    /\ repl.last \in {"KeyboardInterrupt", "BlockingIOError", "Exception", "line"} =>
           repl.pc = "prompt"

\* the loop was left by a cancellation, with exiting not set
C29_Witness == repl.pc = "ended" /\ repl.raised = "CancelledError" /\ ~exiting /\ ~repl.eof

-----------------------------------------------------------------------------
(* Properties of the last sitting's operations: the widened midpoint, the  *)
(* single submission, positions, order requests, concurrent adds, the      *)
(* reconnect tasks and the command words.                                  *)

\* C31: for a quote with both sides positive and a contract that is not an
\* option, the price derived for a buy is at least the plain midpoint
\* (bid + ask) / 2 and the price derived for a sell is at most it.
C31_WidenedInEntryDirection ==
    (md.done /\ ~isOption(md.contract)) =>
        IF md.isLong
        THEN 2 * SubCent * md.price >= md.bid + md.ask
        ELSE 2 * SubCent * md.price <= md.bid + md.ask

\* the placeOrder requests of the call so far
PlaceOrders == {i \in DOMAIN po.sent : po.sent[i].op = "placeOrder"}

\* C32: a call of placeOrderForContract has sent placeOrder once when it has
\* returned (order, trade) and never otherwise; and it returns (order, trade)
\* only outside preview mode, for a contract that passes the gate, a positive
\* quantity, an order that was generated, no peg-to-midpoint on a contract that
\* is neither a stock nor an option, and a wait that was not cancelled.
C32_SubmitsAtMostOnce ==
    /\ Cardinality(PlaceOrders) = IF po.outcome = "placed" THEN 1 ELSE 0
    /\ po.outcome = "placed" =>
          /\ po.phase = "done"
          /\ Len(po.sent) = 1
          /\ ~po.preview
          /\ ~Unqualified(po.contract)
          /\ PositiveQty(po.qty)
          /\ po.orderType \in {"LMT", "PEG MID"}
          /\ po.orderType = "PEG MID" => po.contract.secType \in {"STK", "OPT"}
          /\ ~po.cancelled

\* a dollar amount that waited for its quote and was then placed once
C32_Witness ==
    /\ po.phase = "done"
    /\ po.outcome = "placed"
    /\ po.dynamic
    /\ po.sleeps > 0
    /\ Cardinality(PlaceOrders) = 1

\* C33: contractsForPosition returns one entry per portfolio item whose name
\* matches, in portfolio order; its size is the whole position when qty is None
\* or at least as large in magnitude as the position, and otherwise the magnitude
\* of qty with the sign of the position; the size is never larger in magnitude
\* than the position and never of the other sign.
C33_SizeWithinPosition ==
    cp.done =>
        /\ Len(cp.results) =
               Cardinality({i \in DOMAIN cp.portfolio : PositionMatches(cp.portfolio[i], cp.sym)})
        /\ \A i \in DOMAIN cp.results :
              LET r == cp.results[i]
                  whole == Signed(r.position)
              IN /\ \E j \in DOMAIN cp.portfolio :
                        /\ cp.portfolio[j].localSymbol = r.contract
                        /\ cp.portfolio[j].position = r.position
                        /\ cp.portfolio[j].marketPrice = r.marketPrice
                 /\ (cp.qty = <<>> \/ Signed(cp.qty[1]).mag >= whole.mag) => r.size = whole
                 /\ (cp.qty # <<>> /\ Signed(cp.qty[1]).mag < whole.mag) =>
                        /\ r.size.mag = Signed(cp.qty[1]).mag
                        /\ r.size.neg = whole.neg
                 /\ r.size.mag <= whole.mag
                 /\ r.size.neg = whole.neg

\* a pattern that matches two short positions, one larger than the positive
\* quantity asked for and one smaller
C33_Witness ==
    /\ cp.done
    /\ cp.qty = <<3>>
    /\ Len(cp.results) >= 2
    /\ \E i \in DOMAIN cp.results :
          cp.results[i].position = 0 - 10 /\ cp.results[i].size = [mag |-> 3, neg |-> TRUE]
    /\ \E i \in DOMAIN cp.results :
          cp.results[i].position = 0 - 3 /\ cp.results[i].size = [mag |-> 3, neg |-> TRUE]

\* C34: a finished call of contractForOrderRequest for no orders returned None;
\* for one order it returned the contract, with an id that is not zero, if the
\* order names an instrument the gateway knows, and None if not (it did not
\* raise); for several orders it ended as bagForSpread did; and it never returned
\* a single contract whose id is zero.
C34_OnlyValidContracts ==
    creq.phase = "done" =>
        /\ creq.orders = <<>> => creq.outcome = "None"
        /\ isSingle(creq.orders) =>
              IF LegResolves(creq.orders[1])
              THEN creq.outcome = "contract" /\ creq.result[1].conId # 0
              ELSE creq.outcome = "None"
        /\ isSpread(creq.orders) =>
              /\ creq.outcome \in {"Bag", "None", "raised"}
              /\ creq.outcome = "Bag" <=> creq.result # <<>>
              /\ creq.outcome = "Bag" => creq.result[1].secType = "BAG"
        /\ creq.outcome = "contract" => creq.result[1].conId # 0

\* C39: a combination that bagForSpread returned is not stopped by the gate of
\* placeOrderForContract ("not contract.conId" and tradingClass other than COMB).
C39_BagPassesGate ==
    bag.outcome = "Bag" => ~Unqualified(bag.result[1])

\* C40: every command of every unit built from the line has a command word that
\* is not empty.
C40_NoEmptyCommandWord ==
    \A u \in DOMAIN runnables :
        \A k \in DOMAIN runnables[u].cmds : runnables[u].cmds[k].cmd # <<>>


\* C36: at most one call of reconnect() is inside the loop at any time
C36_OneLoopActive == Cardinality({t \in 1..MaxTasks : rc[t].pc \in InLoop}) <= 1

\* C37: self.connected is false while a call of reconnect() awaits connectAsync
\* or sleeps before the next attempt, it is true when a call leaves the loop by
\* "break", and after that only the start of a call that a disconnect created
\* makes it false
C37_ConnectedTracksLoop ==
    /\ []((\E t \in 1..MaxTasks : rc[t].pc \in {"connecting", "sleeping"}) => ~connected)
    /\ [][\A t \in 1..MaxTasks : rc[t].pc # "done" /\ rc'[t].pc = "done" => connected']_vars
    /\ [][(/\ connected
           /\ ~connected'
           /\ \A t \in 1..MaxTasks : rc[t].pc \notin InLoop)
              => \E t \in 1..MaxTasks :
                    rc[t].pc = "created" /\ rc[t].born > 0 /\ rc'[t].pc \in InLoop]_vars

\* C38: the assertion of currentQuote never fails in a call that sizes a dollar
\* amount: the polled key is in quoteState at every poll
C38_QuotePresentAtEveryPoll == ~po.missing

\* C35: however concurrent calls of addQuotes interleave, market data is
\* requested at most once per key, and a call that ends with a contract of the
\* gateway leaves its key in quoteState with exactly one request for it
C35_OneRequestPerKey ==
    /\ \A c \in QuoteContracts : Cardinality(RequestsFor(lookupKey(c))) <= 1
    /\ \A m \in 1..MaxAdders :
          aq[m].pc = "done" /\ aq[m].contract.conId # 0
              => /\ QuoteKnown(quoteState, lookupKey(aq[m].contract))
                 /\ Cardinality(RequestsFor(lookupKey(aq[m].contract))) = 1

\* two calls that both began while the key was missing are over, and so is a
\* call for another key
C35_Witness ==
    /\ \A m \in 1..MaxAdders :
          aq[m].pc = "done" /\ aq[m].absent /\ ~aq[m].skipped /\ aq[m].contract.conId # 0
    /\ \E m, n \in 1..MaxAdders :
          m # n /\ lookupKey(aq[m].contract) = lookupKey(aq[n].contract)
    /\ Cardinality(DOMAIN quoteState) > 1

====
